---- MODULE Spec2Model ----
(***************************************************************************)
(* A model of the juju bootstrap orchestrator (environs/bootstrap) and of  *)
(* the OpenStack provider's instance-lifecycle adapter                     *)
(* (environs/openstack/provider.go).                                       *)
(*                                                                         *)
(* Errors are sequences of message parts; the nil error is the empty       *)
(* sequence and wrapping an error prepends the annotation.                 *)
(***************************************************************************)
EXTENDS Integers, Sequences, FiniteSets, TLC

Nil == <<>>

Wrap(prefix, err) == <<prefix>> \o err

Range(s) == {s[i] : i \in 1..Len(s)}

\* sub occurs in msg as a contiguous run of message parts
HasPart(msg, sub) ==
    \E i \in 0..(Len(msg) - Len(sub)) :
        \A j \in 1..Len(sub) : msg[i + j] = sub[j]

(***************************************************************************)
(* Bootstrap orchestrator: data                                            *)
(***************************************************************************)

\* version.Number as <<major, minor, patch, build>>
VersionCurrent == <<1, 2, 3, 0>>

VersionLess(a, b) ==
    \E i \in 1..4 : a[i] < b[i] /\ \A j \in 1..(i - 1) : a[j] = b[j]

ZeroVersion == <<0, 0, 0, 0>>

\* constraints.Value: a dimension that is not set holds ""
NoCons == [arch |-> "", mem |-> "", cores |-> "", itype |-> "", power |-> ""]

ConsDims == {"arch", "mem", "cores", "itype", "power"}

ConsValues ==
    { NoCons,
      [NoCons EXCEPT !.mem = "4G", !.cores = "4"],
      [NoCons EXCEPT !.mem = "8G"],
      [NoCons EXCEPT !.arch = "amd64"],
      [NoCons EXCEPT !.itype = "foo"],
      [NoCons EXCEPT !.itype = "foo", !.mem = "4G"],
      [NoCons EXCEPT !.mem = "4G", !.cores = "4", !.power = "10"] }

\* the dimensions the provider's validator registered as unsupported
Unsupported(cons) == {d \in {"power"} : cons[d] # ""}

AmbiguousErr == <<"ambiguous constraints", "instance-type", "overlaps">>

\* validator.Validate: (unsupported, err)
Validate(cons) ==
    [ unsupported |-> Unsupported(cons),
      err |-> IF cons.itype # "" /\ (cons.mem # "" \/ cons.cores # "")
              THEN AmbiguousErr ELSE Nil ]

\* validator.Merge(fallback, cons): cons wins on every dimension it sets
Merge(env, boot) ==
    LET merged == [d \in ConsDims |-> IF boot[d] # "" THEN boot[d] ELSE env[d]]
    IN  IF Validate(env).err # Nil THEN [value |-> NoCons, err |-> Validate(env).err]
        ELSE IF Validate(boot).err # Nil THEN [value |-> NoCons, err |-> Validate(boot).err]
        ELSE IF Validate(merged).err # Nil THEN [value |-> NoCons, err |-> AmbiguousErr]
        ELSE [value |-> merged, err |-> Nil]

\* ssh.SplitAuthorisedKeys: blank lines and comment lines hold no key
SplitAuthorisedKeys(lines) ==
    SelectSeq(lines, LAMBDA l : l \notin {"", "# comment"})

AuthorizedKeysValues == { <<>>, <<"", "# comment">>, <<"ssh-rsa AAAA user@host">> }

\* coretools.Tools: an empty url is the "" URL of tools that were not uploaded
MkTools(v, series, arch, url) ==
    [version |-> v, series |-> series, arch |-> arch, url |-> url, size |-> 0, sha256 |-> ""]

PrebuiltURL == <<"https://", "streams.canonical.com/juju/tools">>

ToolsLists ==
    { << MkTools(<<1, 2, 3, 0>>, "trusty", "amd64", PrebuiltURL) >>,
      << MkTools(<<1, 2, 3, 1>>, "trusty", "amd64", <<>>) >>,
      << MkTools(<<1, 2, 3, 0>>, "trusty", "amd64", PrebuiltURL),
         MkTools(<<1, 3, 0, 0>>, "trusty", "amd64", <<>>),
         MkTools(<<1, 2, 3, 0>>, "trusty", "arm64", PrebuiltURL) >>,
      << MkTools(<<1, 3, 0, 0>>, "trusty", "amd64", PrebuiltURL),
         MkTools(<<1, 2, 4, 0>>, "trusty", "amd64", <<>>) >> }

NewestVersionFirst(list) ==
    IF list = <<>> THEN ZeroVersion ELSE list[1].version

\* coretools.List.Newest: the newest version and the tools that carry it
NewestVersion(list) ==
    IF list = <<>> THEN ZeroVersion
    ELSE LET vs == {list[i].version : i \in 1..Len(list)}
         IN  CHOOSE v \in vs : \A w \in vs : ~VersionLess(v, w)

Newest(list) ==
    [ version |-> NewestVersion(list),
      list |-> SelectSeq(list, LAMBDA t : t.version = NewestVersion(list)) ]

\* coretools.List.Match on arch and series
MatchTools(list, arch, series) ==
    SelectSeq(list, LAMBDA t : t.arch = arch /\ t.series = series)

isCompatibleVersionExact(v1, v2) == v1 = v2

isCompatibleVersion(v1, v2) ==
    [v1 EXCEPT ![4] = 0] = [v2 EXCEPT ![4] = 0]

findCompatibleToolsAnyVersion(possibleTools, v) == Newest(possibleTools)

findCompatibleTools(possibleTools, v) ==
    Newest(SelectSeq(possibleTools, LAMBDA t : isCompatibleVersion(t.version, v)))

(***************************************************************************)
(* State                                                                   *)
(***************************************************************************)
VARIABLES
    envcfg,     \* the environ's configuration (environ.Config / SetConfig)
    oargs,      \* the BootstrapParams of the running Bootstrap
    opc,        \* the position of Bootstrap in its body
    omerged,    \* bootstrapConstraints, the merged constraints
    otools,     \* availableTools
    ocustom,    \* customImageMetadata
    oimage,     \* imageMetadata
    oresult,    \* the result of environ.Bootstrap
    oselected,  \* selectedTools
    ocalls,     \* the calls Bootstrap has made, each with its error
    oerr        \* the error Bootstrap returned

orchVars == <<envcfg, oargs, opc, omerged, otools, ocustom, oimage, oresult, oselected, ocalls, oerr>>

ConfigValues ==
    [ adminSecret : {"", "sekrit"},
      authorizedKeys : AuthorizedKeysValues,
      caCert : {"", "CERT"},
      caKey : {"", "KEY"},
      agentVersion : {<<>>} ]

\* BootstrapParams; a nil AgentVersion is <<>>
BootstrapParamsValues ==
    [ EnvironConstraints : ConsValues,
      BootstrapConstraints : ConsValues,
      UploadTools : BOOLEAN,
      MetadataDir : {"", "/meta"},
      AgentVersion : {<<>>, <<1, 2, 5, 0>>} ]

NoArgs ==
    [ EnvironConstraints |-> NoCons, BootstrapConstraints |-> NoCons,
      UploadTools |-> FALSE, MetadataDir |-> "", AgentVersion |-> <<>> ]

NoTools == MkTools(ZeroVersion, "", "", <<>>)

NoResult == [Arch |-> "", Series |-> ""]

Call(op, arg, err) == [op |-> op, arg |-> arg, err |-> err]

\* return err from Bootstrap: no later step runs
Return(err) ==
    /\ oerr' = err
    /\ opc' = "done"

(***************************************************************************)
(* Bootstrap, provider.go 1048-1206                                        *)
(***************************************************************************)

\* CheckConfig without its last check
CheckConfigSkipsCAKey(cfg) ==
    IF cfg.adminSecret = ""
    THEN <<"model configuration has", "no admin-secret">>
    ELSE IF Len(SplitAuthorisedKeys(cfg.authorizedKeys)) = 0
    THEN <<"model configuration has", "no authorized-keys">>
    ELSE IF cfg.caCert = ""
    THEN <<"model configuration has", "no ca-cert">>
    ELSE Nil

\* the completeness checks on the configuration
CheckConfig(cfg) ==
    IF cfg.adminSecret = ""
    THEN <<"model configuration has", "no admin-secret">>
    ELSE IF Len(SplitAuthorisedKeys(cfg.authorizedKeys)) = 0
    THEN <<"model configuration has", "no authorized-keys">>
    ELSE IF cfg.caCert = ""
    THEN <<"model configuration has", "no ca-cert">>
    ELSE IF cfg.caKey = ""
    THEN <<"model configuration has", "no ca-private-key">>
    ELSE Nil

Bootstrap(args) ==
    /\ opc = "idle"
    /\ oargs' = args
    /\ IF CheckConfig(envcfg) # Nil
       THEN Return(CheckConfig(envcfg))
       ELSE /\ opc' = "metadata"
            /\ oerr' = Nil
    /\ UNCHANGED <<envcfg, omerged, otools, ocustom, oimage, oresult, oselected, ocalls>>

\* setPrivateMetadataSources, when a metadata directory was given
MetadataOutcomes ==
    { [err |-> Nil, meta |-> <<>>],
      [err |-> Nil, meta |-> <<"custom-image">>],
      [err |-> <<"cannot access image metadata", "permission denied">>, meta |-> <<>>],
      [err |-> <<"cannot read image metadata", "bad index">>, meta |-> <<>>] }

BootstrapMetadataSources ==
    /\ opc = "metadata"
    /\ IF oargs.MetadataDir = ""
       THEN /\ opc' = "validate"
            /\ UNCHANGED <<ocustom, ocalls, oerr>>
       ELSE \E out \in MetadataOutcomes :
              /\ ocalls' = Append(ocalls, Call("setPrivateMetadataSources", oargs.MetadataDir, out.err))
              /\ ocustom' = out.meta
              /\ IF out.err # Nil THEN Return(out.err)
                 ELSE opc' = "validate" /\ UNCHANGED oerr
    /\ UNCHANGED <<envcfg, oargs, omerged, otools, oimage, oresult, oselected>>

ValidatorErr == <<"no constraints validator">>

validateConstraintsUnsupportedFatal(verr, cons) ==
    IF verr THEN ValidatorErr
    ELSE IF Validate(cons).unsupported # {} THEN <<"unsupported constraints">>
    ELSE Validate(cons).err

\* validateConstraints(env, cons): only the validator's error is returned
validateConstraints(verr, cons) ==
    IF verr THEN ValidatorErr ELSE Validate(cons).err

BootstrapValidateConstraints ==
    /\ opc = "validate"
    /\ \E verr \in BOOLEAN :
         LET e1 == validateConstraints(verr, oargs.EnvironConstraints)
             e2 == validateConstraints(verr, oargs.BootstrapConstraints)
             err == IF e1 # Nil THEN e1 ELSE e2
         IN  /\ ocalls' = Append(ocalls, Call("validateConstraints", <<>>, err))
             /\ IF err # Nil THEN Return(err)
                ELSE opc' = "merge" /\ UNCHANGED oerr
    /\ UNCHANGED <<envcfg, oargs, omerged, otools, ocustom, oimage, oresult, oselected>>

BootstrapMergeConstraints ==
    /\ opc = "merge"
    /\ \E verr \in BOOLEAN :
         LET m == Merge(oargs.EnvironConstraints, oargs.BootstrapConstraints)
             err == IF verr THEN ValidatorErr ELSE m.err
         IN  /\ ocalls' = Append(ocalls, Call("Merge", <<>>, err))
             /\ IF err # Nil
                THEN Return(err) /\ UNCHANGED omerged
                ELSE /\ omerged' = m.value
                     /\ opc' = "findtools"
                     /\ UNCHANGED oerr
    /\ UNCHANGED <<envcfg, oargs, otools, ocustom, oimage, oresult, oselected>>

noToolsMessage ==
    << "Juju cannot bootstrap because no tools are available for your model",
       "You may want to use the 'agent-metadata-url' configuration setting to specify the tools location" >>

\* what findAvailableTools can answer: a list, a not-found error or another error
FindToolsOutcomes ==
    { [kind |-> "ok", err |-> Nil, list |-> l] : l \in ToolsLists }
    \cup { [kind |-> "notfound", err |-> <<"no matching tools available">>, list |-> <<>>],
           [kind |-> "error", err |-> <<"cannot read tools metadata">>, list |-> <<>>] }

\* FindToolsError that returns every error as it came
FindToolsErrorUnchanged(out) == out.err

\* the error Bootstrap returns for findAvailableTools' answer
FindToolsError(out) ==
    IF out.kind = "notfound" THEN noToolsMessage ELSE out.err

BootstrapFindTools ==
    /\ opc = "findtools"
    /\ \E out \in FindToolsOutcomes :
         /\ ocalls' = Append(ocalls,
                Call("findAvailableTools",
                     [arch |-> omerged.arch, upload |-> oargs.UploadTools, kind |-> out.kind],
                     out.err))
         /\ otools' = out.list
         /\ IF FindToolsError(out) # Nil
            THEN Return(FindToolsError(out))
            ELSE opc' = "imagemeta" /\ UNCHANGED oerr
    /\ UNCHANGED <<envcfg, oargs, omerged, ocustom, oimage, oresult, oselected>>

ImageMetadataOutcomes ==
    { [err |-> Nil, meta |-> <<>>],
      [err |-> Nil, meta |-> <<"image-trusty-amd64">>],
      [err |-> <<"searching image metadata", "unreachable">>, meta |-> <<>>] }

BootstrapImageMetadata ==
    /\ opc = "imagemeta"
    /\ \E out \in ImageMetadataOutcomes :
         /\ ocalls' = Append(ocalls, Call("bootstrapImageMetadata", <<>>, out.err))
         /\ oimage' = out.meta
         /\ IF out.err # Nil THEN Return(out.err)
            ELSE opc' = "pin" /\ UNCHANGED oerr
    /\ UNCHANGED <<envcfg, oargs, omerged, otools, ocustom, oresult, oselected>>

\* PinnedAgentVersion that ignores the requested agent version
PinnedAgentVersionIgnoresArgs(args) == VersionCurrent

\* the agent-version Bootstrap pins before it calls the provider
PinnedAgentVersion(args) ==
    IF args.AgentVersion # <<>> THEN args.AgentVersion ELSE VersionCurrent

ApplyErr == <<"invalid configuration">>

SetConfigErr == <<"cannot set configuration">>

BootstrapPinAgentVersion ==
    /\ opc = "pin"
    /\ \E applyOk \in BOOLEAN, setOk \in BOOLEAN :
         IF ~applyOk
         THEN /\ ocalls' = Append(ocalls, Call("Apply", PinnedAgentVersion(oargs), ApplyErr))
              /\ Return(ApplyErr)
              /\ UNCHANGED envcfg
         ELSE /\ ocalls' = ocalls
                     \o << Call("Apply", PinnedAgentVersion(oargs), Nil),
                           Call("SetConfig", PinnedAgentVersion(oargs),
                                IF setOk THEN Nil ELSE SetConfigErr) >>
              /\ IF setOk
                 THEN /\ envcfg' = [envcfg EXCEPT !.agentVersion = PinnedAgentVersion(oargs)]
                      /\ opc' = "start"
                      /\ UNCHANGED oerr
                 ELSE Return(SetConfigErr) /\ UNCHANGED envcfg
    /\ UNCHANGED <<oargs, omerged, otools, ocustom, oimage, oresult, oselected>>

\* ProviderBootstrapParams that hands over the merged constraints
ProviderBootstrapParamsMerged(args, merged, tools, image) ==
    [ EnvironConstraints |-> args.EnvironConstraints,
      BootstrapConstraints |-> merged,
      AvailableTools |-> tools,
      ImageMetadata |-> image ]

\* the environs.BootstrapParams handed to environ.Bootstrap
ProviderBootstrapParams(args, merged, tools, image) ==
    [ EnvironConstraints |-> args.EnvironConstraints,
      BootstrapConstraints |-> args.BootstrapConstraints,
      AvailableTools |-> tools,
      ImageMetadata |-> image ]

ProviderBootstrapOutcomes ==
    { [err |-> Nil, result |-> [Arch |-> a, Series |-> "trusty"]] : a \in {"amd64", "arm64"} }
    \cup { [err |-> Nil, result |-> [Arch |-> "amd64", Series |-> "precise"]] }
    \cup { [err |-> <<"dummy.Bootstrap is broken">>, result |-> NoResult] }

BootstrapStartInstance ==
    /\ opc = "start"
    /\ \E out \in ProviderBootstrapOutcomes :
         /\ ocalls' = Append(ocalls,
                Call("Bootstrap", ProviderBootstrapParams(oargs, omerged, otools, oimage), out.err))
         /\ oresult' = out.result
         /\ IF out.err # Nil THEN Return(out.err)
            ELSE opc' = "settools" /\ UNCHANGED oerr
    /\ UNCHANGED <<envcfg, oargs, omerged, otools, ocustom, oimage, oselected>>

ErrNoMatches == <<"no matching tools available">>

\* setBootstrapTools, provider.go 1306-1344.  applyOk and setOk are the
\* answers of cfg.Apply and environ.SetConfig, asked only when the
\* configuration's agent-version is not the newest version
setBootstrapTools(cfgVersion, possibleTools, applyOk, setOk) ==
    IF Len(possibleTools) = 0
    THEN [err |-> <<"no bootstrap tools available">>, tools |-> NoTools,
          applied |-> FALSE, setConfig |-> FALSE, configured |-> FALSE,
          newVersion |-> ZeroVersion]
    ELSE LET newest == Newest(possibleTools)
             update == cfgVersion # newest.version
             cfgErr == IF ~update THEN Nil
                       ELSE IF ~applyOk THEN ApplyErr
                       ELSE IF ~setOk THEN SetConfigErr
                       ELSE Nil
             compatible == findCompatibleTools(possibleTools, VersionCurrent)
             toolsList == IF ~isCompatibleVersion(newest.version, VersionCurrent)
                             /\ Len(compatible.list) # 0
                          THEN compatible.list
                          ELSE newest.list
         IN  [ err |-> IF cfgErr # Nil
                       THEN Wrap("failed to update model configuration", cfgErr)
                       ELSE Nil,
               tools |-> IF cfgErr # Nil THEN NoTools ELSE toolsList[1],
               applied |-> update,
               setConfig |-> update /\ applyOk,
               configured |-> update /\ applyOk /\ setOk,
               newVersion |-> newest.version ]

\* the calls setBootstrapTools makes, in order
setBootstrapToolsCalls(r) ==
    (IF r.applied
     THEN << Call("Apply", r.newVersion, IF r.setConfig THEN Nil ELSE ApplyErr) >>
     ELSE << >>)
    \o (IF r.setConfig
        THEN << Call("SetConfig", r.newVersion, IF r.configured THEN Nil ELSE SetConfigErr) >>
        ELSE << >>)

BootstrapSelectTools ==
    /\ opc = "settools"
    /\ LET matching == MatchTools(otools, oresult.Arch, oresult.Series)
       IN  IF Len(matching) = 0
           THEN /\ Return(ErrNoMatches)
                /\ ocalls' = Append(ocalls, Call("Match", oresult, ErrNoMatches))
                /\ UNCHANGED <<envcfg, oselected>>
           ELSE \E applyOk \in BOOLEAN, setOk \in BOOLEAN :
                  LET r == setBootstrapTools(envcfg.agentVersion, matching, applyOk, setOk)
                  IN  /\ ocalls' = Append(ocalls, Call("Match", oresult, Nil))
                                     \o setBootstrapToolsCalls(r)
                      /\ envcfg' = IF r.configured
                                   THEN [envcfg EXCEPT !.agentVersion = r.newVersion]
                                   ELSE envcfg
                      /\ oselected' = r.tools
                      /\ IF r.err # Nil THEN Return(r.err)
                         ELSE opc' = "build" /\ UNCHANGED oerr
    /\ UNCHANGED <<oargs, omerged, otools, ocustom, oimage, oresult>>

\* what sync.BuildToolsTarball can answer
BuildOutcomes ==
    { [err |-> <<"an error">>, Dir |-> "", StorageName |-> "", Size |-> 0, Sha256Hash |-> ""],
      [err |-> Nil, Dir |-> "/tmp/juju-tools", StorageName |-> "tools/released/juju.tgz",
       Size |-> 4096, Sha256Hash |-> "sha-1"],
      [err |-> Nil, Dir |-> "/tmp/juju-tools2", StorageName |-> "tools/devel/juju.tgz",
       Size |-> 8192, Sha256Hash |-> "sha-2"] }

\* UploadedTools that forgets the URL
UploadedToolsNoURL(selected, built) ==
    [selected EXCEPT !.size = built.Size, !.sha256 = built.Sha256Hash]

\* selectedTools after a successful build: a local file reference
UploadedTools(selected, built) ==
    [selected EXCEPT !.url = <<"file://", built.Dir, built.StorageName>>,
                     !.size = built.Size,
                     !.sha256 = built.Sha256Hash]

BootstrapBuildTools ==
    /\ opc = "build"
    /\ IF oselected.url # <<>>
       THEN /\ opc' = "instancecfg"
            /\ UNCHANGED <<oselected, ocalls, oerr>>
       ELSE \E out \in BuildOutcomes :
              /\ ocalls' = Append(ocalls, Call("BuildToolsTarball", out, out.err))
              /\ IF out.err # Nil
                 THEN /\ Return(Wrap("cannot upload bootstrap tools", out.err))
                      /\ UNCHANGED oselected
                 ELSE /\ oselected' = UploadedTools(oselected, out)
                      /\ opc' = "instancecfg"
                      /\ UNCHANGED oerr
    /\ UNCHANGED <<envcfg, oargs, omerged, otools, ocustom, oimage, oresult>>

\* userPublicSigningKey and instancecfg.NewBootstrapInstanceConfig
InstanceConfigOutcomes ==
    { Nil, <<"invalid public key file", "not found">>, <<"cannot create instance config">> }

BootstrapInstanceConfig ==
    /\ opc = "instancecfg"
    /\ \E err \in InstanceConfigOutcomes :
         /\ ocalls' = Append(ocalls, Call("NewBootstrapInstanceConfig", oresult.Series, err))
         /\ IF err # Nil THEN Return(err)
            ELSE opc' = "finalize" /\ UNCHANGED oerr
    /\ UNCHANGED <<envcfg, oargs, omerged, otools, ocustom, oimage, oresult, oselected>>

\* the instance configuration pushed to the controller instance
FinalizeConfig(selected, custom) ==
    [Tools |-> selected, CustomImageMetadata |-> custom]

FinalizeOutcomes == { Nil, <<"cannot finalize bootstrap">> }

BootstrapFinalize ==
    /\ opc = "finalize"
    /\ \E err \in FinalizeOutcomes :
         /\ ocalls' = Append(ocalls, Call("Finalize", FinalizeConfig(oselected, ocustom), err))
         /\ Return(err)
    /\ UNCHANGED <<envcfg, oargs, omerged, otools, ocustom, oimage, oresult, oselected>>

NextOrch ==
    \/ \E args \in BootstrapParamsValues : Bootstrap(args)
    \/ BootstrapMetadataSources
    \/ BootstrapValidateConstraints
    \/ BootstrapMergeConstraints
    \/ BootstrapFindTools
    \/ BootstrapImageMetadata
    \/ BootstrapPinAgentVersion
    \/ BootstrapStartInstance
    \/ BootstrapSelectTools
    \/ BootstrapBuildTools
    \/ BootstrapInstanceConfig
    \/ BootstrapFinalize


(***************************************************************************)
(* OpenStack provider: state                                               *)
(***************************************************************************)

\* the number of attempt slots of shortAttempt and of longAttempt in the model
MaxShortAttempts == 2

MaxLongAttempts == 2

\* the servers the compute service can hold, and the ids one call can name
MaxServers == 2

MaxIds == 2

Procs == {"p1", "p2"}

ServerIds == 1..MaxServers

VARIABLES
    servers,    \* nova: server id -> "none", "BUILD", "ACTIVE", "ERROR" or "DELETED"
    stateFile,  \* the bootstrap state in the control bucket: <<>> or <<instance id>>
    bucket,     \* the other objects of the control bucket
    proc        \* the calls in flight on the environ, one per caller

osVars == <<servers, stateFile, bucket, proc>>

VARIABLES
    fargs,      \* the arguments of the function or command under study
    fres        \* <<>> before it has returned, then <<its result>>

fnVars == <<fargs, fres>>

VARIABLES
    secGroups,  \* nova: the security groups and their rules
    inst,       \* an instance of the provider: its id and its address field
    environ,    \* the fields of an environ: the configuration each was set from
    ecfgMutex,  \* the caller that holds the environ's ecfgMutex, or ""
    eproc,      \* the calls in flight on the environ's accessors and SetConfig
    aloop,      \* a retry loop: its attempts so far and where it stands
    files,      \* the current-model and current-controller files
    flock,      \* the caller that holds the lock of the data directory, or ""
    fproc,      \* the calls in flight on the two files
    fhist       \* the calls made, the last write that returned, and whether
                \* the directory was ever left without a current name

fileVars == <<files, flock, fproc, fhist>>

extVars == <<secGroups, inst, environ, ecfgMutex, eproc, aloop, fileVars>>

vars == <<orchVars, osVars, fnVars, extVars>>

Exists(srv, id) == id \in DOMAIN srv /\ srv[id] \in {"BUILD", "ACTIVE", "ERROR"}

IdleProc ==
    [ pc |-> "idle", op |-> "", upload |-> FALSE, public |-> FALSE, ids |-> <<>>,
      fip |-> "", server |-> 0, found |-> {}, missing |-> <<>>, slot |-> 0,
      calls |-> <<>>, err |-> Nil, ret |-> <<>> ]

\* the loop `for a := attempt.Start(); a.Next(); { ...; if stop { break } }`
\* over the answers the attempt slots would get: the number of attempts made
AttemptsMade(resp, Stop(_)) ==
    LET hits == {i \in 1..Len(resp) : Stop(resp[i])}
    IN  IF hits = {} THEN Len(resp)
        ELSE CHOOSE i \in hits : \A j \in hits : i <= j

Finish(p, err, ret) ==
    [proc[p] EXCEPT !.pc = "done", !.err = err, !.ret = ret]

NovaCall(name, arg, answer) == [op |-> name, arg |-> arg, answer |-> answer]

(***************************************************************************)
(* terminateInstances and StopInstances, provider.go 666-677 and 917-934   *)
(***************************************************************************)

DeleteErr(id) == <<"cannot delete server", ToString(id)>>

\* nova.DeleteServer on the compute service srv; fault: the request fails
DeleteServer(srv, id, fault) ==
    IF fault THEN [answer |-> "error", servers |-> srv]
    ELSE IF Exists(srv, id)
    THEN [answer |-> "ok", servers |-> [srv EXCEPT ![id] = "DELETED"]]
    ELSE [answer |-> "notfound", servers |-> srv]

RECURSIVE TerminateFromStopsAtError(_, _, _, _)
TerminateFromStopsAtError(ids, faults, i, st) ==
    IF i > Len(ids) \/ st.err # Nil THEN st
    ELSE LET d == DeleteServer(st.servers, ids[i], faults[i])
         IN  TerminateFromStopsAtError(ids, faults, i + 1,
                 [ servers |-> d.servers,
                   calls |-> Append(st.calls, NovaCall("DeleteServer", ids[i], d.answer)),
                   err |-> IF d.answer = "error" THEN DeleteErr(ids[i]) ELSE Nil ])

\* the loop of terminateInstances from position i on
RECURSIVE TerminateFrom(_, _, _, _)
TerminateFrom(ids, faults, i, st) ==
    IF i > Len(ids) THEN st
    ELSE LET d == DeleteServer(st.servers, ids[i], faults[i])
             err == IF d.answer = "error" THEN DeleteErr(ids[i]) ELSE Nil
         IN  TerminateFrom(ids, faults, i + 1,
                 [ servers |-> d.servers,
                   calls |-> Append(st.calls, NovaCall("DeleteServer", ids[i], d.answer)),
                   err |-> IF err # Nil /\ st.err = Nil THEN err ELSE st.err ])

terminateInstances(srv, ids, faults) ==
    TerminateFrom(ids, faults, 1, [servers |-> srv, calls |-> <<>>, err |-> Nil])

\* the fault schedules of n requests
Faults(n) == [1..n -> BOOLEAN]

\* an environs.Instance that is not an *instance of this provider
Foreign == 0

IdSeqs(S, n) == UNION {[1..k -> S] : k \in 0..n}

StopInstances(p, insts) ==
    /\ proc[p].pc = "idle"
    /\ IF \E i \in 1..Len(insts) : insts[i] = Foreign
       THEN /\ proc' = [proc EXCEPT ![p] =
                  [Finish(p, <<"Incompatible environs.Instance supplied">>, <<>>)
                      EXCEPT !.op = "StopInstances", !.ids = insts]]
            /\ UNCHANGED servers
       ELSE \E faults \in Faults(Len(insts)) :
              LET t == terminateInstances(servers, insts, faults)
              IN  /\ servers' = t.servers
                  /\ proc' = [proc EXCEPT ![p] =
                        [Finish(p, t.err, <<>>)
                            EXCEPT !.op = "StopInstances", !.ids = insts, !.calls = t.calls]]
    /\ UNCHANGED <<stateFile, bucket, orchVars>>

(***************************************************************************)
(* AllInstances and Destroy, provider.go 741-787                           *)
(***************************************************************************)

\* the ids of S in ascending order
RECURSIVE Ascending(_)
Ascending(S) ==
    IF S = {} THEN <<>>
    ELSE LET m == CHOOSE x \in S : \A y \in S : x <= y
         IN  <<m>> \o Ascending(S \ {m})

ListErr == <<"cannot list servers">>

\* an answer of nova.ListServersDetail: a failure, or the servers of the
\* environment that are visible to the request
ListAnswers(srv) ==
    { [fail |-> TRUE, visible |-> {}] }
    \cup { [fail |-> FALSE, visible |-> v] : v \in SUBSET {id \in ServerIds : Exists(srv, id)} }

\* AllInstances: the listed servers that are ACTIVE or BUILD
AllInstancesOf(srv, list) ==
    IF list.fail THEN [err |-> ListErr, insts |-> <<>>]
    ELSE [ err |-> Nil,
           insts |-> Ascending({id \in list.visible : srv[id] \in {"ACTIVE", "BUILD"}}) ]

AllInstances(p) ==
    /\ proc[p].pc = "idle"
    /\ \E list \in ListAnswers(servers) :
         LET a == AllInstancesOf(servers, list)
         IN  proc' = [proc EXCEPT ![p] =
                 [Finish(p, a.err, a.insts)
                     EXCEPT !.op = "AllInstances",
                            !.calls = <<NovaCall("ListServersDetail", list.visible,
                                                 IF list.fail THEN "error" ELSE "ok")>>]]
    /\ UNCHANGED <<servers, stateFile, bucket, orchVars>>

DestroyIdsNoDedup(ids, ensureInsts) == ids \o ensureInsts

\* the ids Destroy terminates: the listed instances, then the instances of
\* ensureInsts it has not found yet
RECURSIVE DestroyIds(_, _)
DestroyIds(ids, ensureInsts) ==
    IF ensureInsts = <<>> THEN ids
    ELSE DestroyIds(IF Head(ensureInsts) \in Range(ids) THEN ids
                    ELSE Append(ids, Head(ensureInsts)),
                    Tail(ensureInsts))

StorageErr == <<"cannot delete storage objects">>

Destroy(p, ensureInsts) ==
    /\ proc[p].pc = "idle"
    /\ \E list \in ListAnswers(servers), storageOk \in BOOLEAN :
         LET a == AllInstancesOf(servers, list)
             listCall == NovaCall("ListServersDetail", list.visible,
                                  IF list.fail THEN "error" ELSE "ok")
             ids == DestroyIds(a.insts, ensureInsts)
         IN  IF a.err # Nil
             THEN /\ proc' = [proc EXCEPT ![p] =
                        [Finish(p, Wrap("cannot get instances", a.err), <<>>)
                            EXCEPT !.op = "Destroy", !.ids = ensureInsts,
                                   !.calls = <<listCall>>]]
                  /\ UNCHANGED <<servers, stateFile, bucket>>
             ELSE \E faults \in Faults(Len(ids)) :
                    LET t == terminateInstances(servers, ids, faults)
                    IN  /\ servers' = t.servers
                        /\ IF t.err # Nil
                           THEN /\ proc' = [proc EXCEPT ![p] =
                                      [Finish(p, t.err, <<>>)
                                          EXCEPT !.op = "Destroy", !.ids = ensureInsts,
                                                 !.calls = <<listCall>> \o t.calls]]
                                /\ UNCHANGED <<stateFile, bucket>>
                           ELSE /\ proc' = [proc EXCEPT ![p] =
                                      [Finish(p, IF storageOk THEN Nil ELSE StorageErr, <<>>)
                                          EXCEPT !.op = "Destroy", !.ids = ensureInsts,
                                                 !.calls = <<listCall>> \o t.calls
                                                    \o <<NovaCall("deleteAll", <<>>,
                                                          IF storageOk THEN "ok" ELSE "error")>>]]
                                /\ stateFile' = IF storageOk THEN <<>> ELSE stateFile
                                /\ bucket' = IF storageOk THEN {} ELSE bucket
    /\ UNCHANGED orchVars

(***************************************************************************)
(* Instances and collectInstances, provider.go 679-739                     *)
(***************************************************************************)

ErrNoInstances == <<"no instances found">>

ErrPartialInstances == <<"only some instances were found">>

\* the answers one request of collectInstances can get: nova.GetServer for
\* a single id, nova.ListServersDetail otherwise
CollectAnswers(srv, ids) ==
    IF Len(ids) = 1
    THEN { [fail |-> TRUE, visible |-> {}] }
         \cup (IF Exists(srv, ids[1]) THEN {[fail |-> FALSE, visible |-> {ids[1]}]} ELSE {})
    ELSE ListAnswers(srv)

\* collectInstances: the ids still missing and the instances found so far
collectInstances(srv, ids, found, answer) ==
    IF answer.fail THEN [missing |-> ids, found |-> found]
    ELSE [ missing |-> SelectSeq(ids, LAMBDA id : id \notin answer.visible),
           found |-> found \cup {id \in Range(ids) :
                                    id \in answer.visible /\ srv[id] \in {"ACTIVE", "BUILD"}} ]

InstancesResultAllOrNothing(ids, found) ==
    IF found = {} THEN [ret |-> <<>>, err |-> ErrNoInstances]
    ELSE [ret |-> ids, err |-> Nil]

\* what Instances returns once its loop has ended; a nil instance is 0
InstancesResult(ids, found) ==
    IF found = {} THEN [ret |-> <<>>, err |-> ErrNoInstances]
    ELSE [ ret |-> [i \in 1..Len(ids) |-> IF ids[i] \in found THEN ids[i] ELSE 0],
           err |-> IF \E i \in 1..Len(ids) : ids[i] \notin found
                   THEN ErrPartialInstances ELSE Nil ]

Instances(p, ids) ==
    /\ proc[p].pc = "idle"
    /\ proc' = [proc EXCEPT ![p] =
          [@ EXCEPT !.pc = "collect", !.op = "Instances", !.ids = ids,
                    !.missing = ids, !.found = {}, !.slot = 0]]
    /\ UNCHANGED <<servers, stateFile, bucket, orchVars>>

\* one attempt of the loop of Instances; the last one returns
InstancesAttempt(p) ==
    /\ proc[p].pc = "collect"
    /\ \E answer \in CollectAnswers(servers, proc[p].missing) :
         LET c == collectInstances(servers, proc[p].missing, proc[p].found, answer)
             call == NovaCall(IF Len(proc[p].missing) = 1 THEN "GetServer"
                              ELSE "ListServersDetail",
                              answer.visible, IF answer.fail THEN "error" ELSE "ok")
             r == InstancesResult(proc[p].ids, c.found)
         IN  IF Len(c.missing) = 0 \/ proc[p].slot + 1 >= MaxShortAttempts
             THEN proc' = [proc EXCEPT ![p] =
                     [Finish(p, r.err, r.ret)
                         EXCEPT !.missing = c.missing, !.found = c.found,
                                !.slot = @ + 1, !.calls = Append(@, call)]]
             ELSE proc' = [proc EXCEPT ![p] =
                     [@ EXCEPT !.missing = c.missing, !.found = c.found,
                               !.slot = @ + 1, !.calls = Append(@, call)]]
    /\ UNCHANGED <<servers, stateFile, bucket, orchVars>>

(***************************************************************************)
(* environ.Bootstrap, provider.go 283-364                                  *)
(***************************************************************************)

EnvironBootstrap(p, uploadTools) ==
    /\ proc[p].pc = "idle"
    /\ proc' = [proc EXCEPT ![p] =
          IF envcfg.adminSecret = ""
          THEN [Finish(p, <<"admin-secret is required for bootstrap">>, <<>>)
                   EXCEPT !.op = "Bootstrap", !.upload = uploadTools, !.public = TRUE]
          ELSE [@ EXCEPT !.pc = "check", !.op = "Bootstrap", !.upload = uploadTools,
                         !.public = TRUE]]
    /\ UNCHANGED <<servers, stateFile, bucket, orchVars>>

IOErr == <<"storage unreachable">>

\* a storage that answers not-found although it holds the state file
LoadStateAnswerStale(file, fault) ==
    IF fault THEN "error" ELSE "notfound"

\* what loadState answers: the storage fails, or it answers for the state
\* file it holds
LoadStateAnswer(file, fault) ==
    IF fault THEN "error" ELSE IF file # <<>> THEN "ok" ELSE "notfound"

CheckOldStateNotFoundOnly(answer) ==
    IF answer = "error" THEN Wrap("cannot query old bootstrap state", IOErr) ELSE Nil

\* what Bootstrap concludes from the last answer of loadState, Nil when the
\* environment is not bootstrapped
CheckOldState(answer) ==
    IF answer = "ok" THEN <<"environment is already bootstrapped">>
    ELSE IF answer # "notfound" THEN Wrap("cannot query old bootstrap state", IOErr)
    ELSE Nil

\* one attempt of the loop around loadState; the loop goes on while the
\* state file is still seen
BootstrapCheckState(p) ==
    /\ proc[p].pc = "check"
    /\ \E fault \in BOOLEAN :
         LET answer == LoadStateAnswer(stateFile, fault)
             call == NovaCall("loadState", <<>>, answer)
         IN  proc' = [proc EXCEPT ![p] =
                 IF answer = "ok" /\ proc[p].slot + 1 < MaxShortAttempts
                 THEN [@ EXCEPT !.slot = @ + 1, !.calls = Append(@, call)]
                 ELSE IF CheckOldState(answer) # Nil
                 THEN [Finish(p, CheckOldState(answer), <<>>)
                          EXCEPT !.slot = @ + 1, !.calls = Append(@, call)]
                 ELSE [@ EXCEPT !.pc = "tools", !.slot = @ + 1, !.calls = Append(@, call)]]
    /\ UNCHANGED <<servers, stateFile, bucket, orchVars>>

\* PutTools or FindTools, BootstrapConfig and the CA certificate
BootstrapToolsErr(upload, fail, cfg) ==
    IF fail = "tools"
    THEN IF upload THEN <<"cannot upload tools", "no space">>
         ELSE <<"cannot find tools", "no tools available">>
    ELSE IF fail = "config"
    THEN <<"unable to determine inital configuration", "bad config">>
    ELSE IF cfg.caCert = ""
    THEN <<"no CA certificate in environment configuration">>
    ELSE Nil

BootstrapTools(p) ==
    /\ proc[p].pc = "tools"
    /\ \E fail \in {"none", "tools", "config"} :
         LET err == BootstrapToolsErr(proc[p].upload, fail, envcfg)
         IN  /\ proc' = [proc EXCEPT ![p] =
                   IF err # Nil THEN Finish(p, err, <<>>)
                   ELSE [@ EXCEPT !.pc = "alloc"]]
             /\ bucket' = IF proc[p].upload /\ fail # "tools"
                          THEN bucket \cup {"tools"} ELSE bucket
    /\ UNCHANGED <<servers, stateFile, orchVars>>

(***************************************************************************)
(* StartInstance and startInstance, provider.go 477-484 and 585-664        *)
(***************************************************************************)

StartInstance(p) ==
    /\ proc[p].pc = "idle"
    /\ proc' = [proc EXCEPT ![p] =
          [@ EXCEPT !.pc = "alloc", !.op = "StartInstance", !.public = FALSE]]
    /\ UNCHANGED <<servers, stateFile, bucket, orchVars>>

\* the error of startInstance as its caller returns it
StartError(p, err) ==
    IF proc[p].op = "Bootstrap" THEN Wrap("cannot start bootstrap instance", err) ELSE err

StartAllocatePublicIP(p) ==
    /\ proc[p].pc = "alloc"
    /\ IF ~proc[p].public
       THEN proc' = [proc EXCEPT ![p] = [@ EXCEPT !.pc = "prepare"]]
       ELSE \E ok \in BOOLEAN :
              proc' = [proc EXCEPT ![p] =
                  IF ok
                  THEN [@ EXCEPT !.pc = "prepare", !.fip = "10.0.0.1",
                                 !.calls = Append(@, NovaCall("allocatePublicIP", <<>>, "ok"))]
                  ELSE [Finish(p, StartError(p, <<"cannot allocate a public IP as needed">>), <<>>)
                           EXCEPT !.calls = Append(@, NovaCall("allocatePublicIP", <<>>, "error"))]]
    /\ UNCHANGED <<servers, stateFile, bucket, orchVars>>

\* the steps of startInstance before the server is run
PrepareErr(fail) ==
    IF fail = "tools" THEN <<"no tools available">>
    ELSE IF fail = "unknown" THEN <<"cannot find image for unknown series or architecture">>
    ELSE IF fail = "spec" THEN <<"cannot find image satisfying constraints", "no image">>
    ELSE IF fail = "userdata" THEN <<"cannot make user data", "bad config">>
    ELSE IF fail = "groups" THEN <<"cannot set up groups", "quota exceeded">>
    ELSE Nil

StartPrepare(p) ==
    /\ proc[p].pc = "prepare"
    /\ \E fail \in {"none", "unknown", "spec", "userdata", "groups"}
                     \cup (IF proc[p].op = "Bootstrap" THEN {} ELSE {"tools"}) :
         proc' = [proc EXCEPT ![p] =
             IF PrepareErr(fail) # Nil
             THEN Finish(p, StartError(p, PrepareErr(fail)), <<>>)
             ELSE [@ EXCEPT !.pc = "run"]]
    /\ UNCHANGED <<servers, stateFile, bucket, orchVars>>

\* the ids nova can give a new server
FreshIds(srv) == {id \in ServerIds : srv[id] = "none"}

\* the loop around nova.RunServer when every error is retried
RunServerAttemptsRetryAll(answers) ==
    AttemptsMade(answers, LAMBDA a : a = "ok")

\* the loop around nova.RunServer: the attempts made
RunServerAttempts(answers) ==
    AttemptsMade(answers, LAMBDA a : a = "ok" \/ a # "notfound")

RunErr(answer) ==
    Wrap("cannot run instance",
         IF answer = "notfound" THEN <<"resource not found">> ELSE <<"quota exceeded">>)

StartRunServer(p) ==
    /\ proc[p].pc = "run"
    /\ \E answers \in [1..MaxShortAttempts ->
                          IF FreshIds(servers) = {} THEN {"notfound", "error"}
                          ELSE {"ok", "notfound", "error"}] :
         LET n == RunServerAttempts(answers)
             calls == [i \in 1..n |-> NovaCall("RunServer", <<>>, answers[i])]
             id == CHOOSE x \in FreshIds(servers) : \A y \in FreshIds(servers) : x <= y
         IN  IF answers[n] = "ok"
             THEN /\ servers' = [servers EXCEPT ![id] = "BUILD"]
                  /\ proc' = [proc EXCEPT ![p] =
                        [@ EXCEPT !.pc = "get", !.server = id, !.calls = @ \o calls]]
             ELSE /\ proc' = [proc EXCEPT ![p] =
                        [Finish(p, StartError(p, RunErr(answers[n])), <<>>)
                            EXCEPT !.calls = @ \o calls]]
                  /\ UNCHANGED servers
    /\ UNCHANGED <<stateFile, bucket, orchVars>>

StartGetServer(p) ==
    /\ proc[p].pc = "get"
    /\ \E ok \in BOOLEAN :
         LET call == NovaCall("GetServer", proc[p].server, IF ok THEN "ok" ELSE "error")
         IN  proc' = [proc EXCEPT ![p] =
                 IF ok THEN [@ EXCEPT !.pc = "assign", !.calls = Append(@, call)]
                 ELSE [Finish(p, StartError(p, <<"cannot get started instance", "timeout">>), <<>>)
                          EXCEPT !.calls = Append(@, call)]]
    /\ UNCHANGED <<servers, stateFile, bucket, orchVars>>

\* the loop of assignPublicIP around nova.AddServerFloatingIP
AssignAttempts(answers) == AttemptsMade(answers, LAMBDA a : a = "ok")

\* what startInstance does when assignPublicIP has failed
AssignFailed(srv, id, fault) ==
    terminateInstances(srv, <<id>>, <<fault>>)

\* startInstance has returned the instance
Started(p) ==
    IF proc[p].op = "Bootstrap"
    THEN [proc[p] EXCEPT !.pc = "save"]
    ELSE Finish(p, Nil, <<proc[p].server>>)

StartAssignPublicIP(p) ==
    /\ proc[p].pc = "assign"
    /\ IF ~proc[p].public
       THEN /\ proc' = [proc EXCEPT ![p] = Started(p)]
            /\ UNCHANGED servers
       ELSE \E answers \in [1..MaxLongAttempts -> {"ok", "error"}], fault \in BOOLEAN :
              LET n == AssignAttempts(answers)
                  calls == [i \in 1..n |->
                               NovaCall("AddServerFloatingIP", proc[p].server, answers[i])]
                  t == AssignFailed(servers, proc[p].server, fault)
              IN  IF answers[n] = "ok"
                  THEN /\ proc' = [proc EXCEPT ![p] = [Started(p) EXCEPT !.calls = @ \o calls]]
                       /\ UNCHANGED servers
                  ELSE /\ proc' = [proc EXCEPT ![p] =
                             [Finish(p, StartError(p,
                                        <<"cannot assign public address", "no network info">>), <<>>)
                                 EXCEPT !.calls = @ \o calls \o t.calls]]
                       /\ servers' = t.servers
    /\ UNCHANGED <<stateFile, bucket, orchVars>>

\* the end of environ.Bootstrap: saveState, and StopInstances when it fails
BootstrapSaveState(p) ==
    /\ proc[p].pc = "save"
    /\ \E ok \in BOOLEAN, fault \in BOOLEAN :
         IF ok
         THEN /\ stateFile' = <<proc[p].server>>
              /\ proc' = [proc EXCEPT ![p] =
                    [Finish(p, Nil, <<>>)
                        EXCEPT !.calls = Append(@, NovaCall("saveState", proc[p].server, "ok"))]]
              /\ UNCHANGED servers
         ELSE LET t == terminateInstances(servers, <<proc[p].server>>, <<fault>>)
              IN  /\ servers' = t.servers
                  /\ proc' = [proc EXCEPT ![p] =
                        [Finish(p, <<"cannot save state", "storage unreachable">>, <<>>)
                            EXCEPT !.calls = Append(@, NovaCall("saveState", proc[p].server, "error"))
                                              \o t.calls]]
                  /\ UNCHANGED stateFile
    /\ UNCHANGED <<bucket, orchVars>>

(***************************************************************************)
(* instanceAddress, provider.go 172-208                                    *)
(***************************************************************************)

\* the longest address list of a network in the model
MaxAddrs == 2

Networks == {"public", "private", "custom"}

\* the addresses nova reports, by network and position; the second row is IPv6
AddressText ==
    [ public  |-> << <<"2.2.2.2", "2.2.2.3", "2.2.2.4">>, <<"2001::2", "2001::3", "2001::4">> >>,
      private |-> << <<"10.0.0.5", "10.0.0.6", "10.0.0.7">>, <<"fe80::5", "fe80::6", "fe80::7">> >>,
      custom  |-> << <<"192.168.0.8", "192.168.0.9", "192.168.0.10">>,
                     <<"fd00::8", "fd00::9", "fd00::10">> >> ]

IPAddress(net, i, version) ==
    [Version |-> version, Address |-> AddressText[net][IF version = 4 THEN 1 ELSE 2][i]]

\* the address lists one network can have
AddressLists(net) ==
    UNION { { [i \in 1..n |-> IPAddress(net, i, vs[i])] : vs \in [1..n -> {4, 6}] } :
            n \in 0..MaxAddrs }

\* server.Addresses: a map of some networks to address lists
AddressMaps ==
    UNION { { a \in [nets -> UNION {AddressLists(n) : n \in nets}] :
                \A n \in nets : a[n] \in AddressLists(n) } : nets \in SUBSET Networks }

\* the orders in which a range over a map with the keys S can yield them
KeyOrders(S) ==
    {o \in [1..Cardinality(S) -> S] : \A i, j \in 1..Cardinality(S) : o[i] = o[j] => i = j}

ErrNoDNSName == <<"no DNS name yet">>

\* the position of the first IPv4 address of ips, 0 when it has none
FirstIPv4(ips) ==
    LET hits == {i \in 1..Len(ips) : ips[i].Version = 4}
    IN  IF hits = {} THEN 0 ELSE CHOOSE i \in hits : \A j \in hits : i <= j

\* the outer loop of instanceAddress from position i of the order on
RECURSIVE ScanNetworks(_, _, _, _)
ScanNetworks(addresses, order, i, st) ==
    IF i > Len(order) THEN st
    ELSE LET network == order[i]
             k == FirstIPv4(addresses[network])
         IN  ScanNetworks(addresses, order, i + 1,
                 IF k = 0 THEN st
                 ELSE IF network = "public"
                 THEN [st EXCEPT !.public = addresses[network][k].Address]
                 ELSE [st EXCEPT !.privateNet = network,
                                 !.private = addresses[network][k].Address])

SecondEntryIgnored(addresses, st) == st

\* the public address is the second one of the private network
SecondEntry(addresses, st) ==
    IF st.public = "" /\ st.privateNet \in DOMAIN addresses
    THEN LET prv == addresses[st.privateNet]
         IN  IF Len(prv) > 1 /\ prv[2].Version = 4
             THEN [st EXCEPT !.public = prv[2].Address] ELSE st
    ELSE st

instanceAddress(addresses, order) ==
    LET scanned == ScanNetworks(addresses, order, 1,
                       [private |-> "", public |-> "", privateNet |-> ""])
        st == SecondEntry(addresses, scanned)
        public == IF st.public = "" /\ st.private # "" THEN st.private ELSE st.public
    IN  IF public = "" THEN [addr |-> "", err |-> ErrNoDNSName]
        ELSE [addr |-> public, err |-> Nil]

\* one call of instanceAddress
InstanceAddressCall ==
    /\ fres = <<>>
    /\ fres' = <<instanceAddress(fargs.addresses, fargs.order)>>
    /\ UNCHANGED fargs

(***************************************************************************)
(* findCompatibleTools and setBootstrapTools called on their own,          *)
(* provider.go 1306-1365                                                   *)
(***************************************************************************)

\* the longest list of candidate tools in the model
MaxTools == 3

ToolsVersions == { <<1, 2, 3, 1>>, <<1, 2, 3, 9>>, <<1, 2, 4, 0>>, <<1, 1, 0, 0>> }

CandidateLists ==
    UNION { { [i \in 1..n |-> MkTools(vs[i], "trusty", "amd64", <<>>)] :
                vs \in [1..n -> ToolsVersions] } : n \in 0..MaxTools }

FindCompatibleToolsCall ==
    /\ fres = <<>>
    /\ fargs.fn = "findCompatibleTools"
    /\ fres' = <<findCompatibleTools(fargs.possibleTools, fargs.version)>>
    /\ UNCHANGED <<fargs, orchVars>>

\* setBootstrapTools on the environment's configuration
SetBootstrapToolsCall ==
    /\ fres = <<>>
    /\ fargs.fn = "setBootstrapTools"
    /\ LET r == setBootstrapTools(envcfg.agentVersion, fargs.possibleTools,
                                  fargs.applyOk, fargs.setOk)
       IN  /\ fres' = <<r>>
           /\ envcfg' = IF r.configured
                        THEN [envcfg EXCEPT !.agentVersion = r.newVersion]
                        ELSE envcfg
           /\ ocalls' = setBootstrapToolsCalls(r)
    /\ UNCHANGED <<fargs, oargs, opc, omerged, otools, ocustom, oimage, oresult, oselected, oerr>>

(***************************************************************************)
(* EnsureNotBootstrapped, provider.go 1412-1433                            *)
(***************************************************************************)

ErrAlreadyBootstrapped == <<"model is already bootstrapped">>

ErrNotBootstrapped == <<"model is not bootstrapped">>

\* what env.ControllerInstances can return as its error: nil, a sentinel, an
\* annotated sentinel, or another error
ControllerInstancesErrors ==
    { Nil, ErrNoInstances, ErrNotBootstrapped, ErrPartialInstances, <<"connection refused">>,
      Wrap("listing controllers", ErrNoInstances),
      Wrap("listing controllers", ErrNotBootstrapped),
      Wrap("listing controllers", <<"connection refused">>) }

CauseIsOutermost(err) == IF err = Nil THEN Nil ELSE <<err[1]>>

\* errors.Cause: the error under the annotations
Cause(err) == IF err = Nil THEN Nil ELSE <<err[Len(err)]>>

EnsureNotBootstrapped(err) ==
    IF Cause(err) = Nil THEN ErrAlreadyBootstrapped
    ELSE IF Cause(err) = ErrNoInstances THEN Nil
    ELSE IF Cause(err) = ErrNotBootstrapped THEN Nil
    ELSE err

EnsureNotBootstrappedCall ==
    /\ fres = <<>>
    /\ fargs.fn = "EnsureNotBootstrapped"
    /\ fres' = <<EnsureNotBootstrapped(fargs.err)>>
    /\ UNCHANGED <<fargs, orchVars>>

(***************************************************************************)
(* Status values and status documents, state/status.go                     *)
(***************************************************************************)

\* the Status constants, and a value that is none of them
StatusValues ==
    { "error", "started", "pending", "stopped", "down",
      "allocating", "rebooting", "executing", "idle", "failed", "lost",
      "installing", "stopping",
      "maintenance", "terminated", "unknown", "waiting", "blocked", "active",
      "bogus" }

WorkloadMatchesBothNormalised(status, candidate) ==
    LET norm(x) == IF x \in {"down", "stopped"} THEN "terminated"
                   ELSE IF x = "installing" THEN "maintenance"
                   ELSE IF x = "started" THEN "active"
                   ELSE x
    IN  norm(status) = norm(candidate)

\* Status.WorkloadMatches: the switch on the candidate, then the comparison
WorkloadMatches(status, candidate) ==
    IF candidate = status THEN TRUE
    ELSE IF candidate \in {"down", "stopped"} THEN status = "terminated"
    ELSE IF candidate = "installing" THEN status = "maintenance"
    ELSE IF candidate = "started" THEN status = "active"
    ELSE status = candidate

\* StatusData: a nil map, an empty map or a map with an entry
StatusDataValues == {"nil", "map[]", "map[k:v]"}

StatusDocs ==
    [Status : StatusValues, StatusInfo : {"", "hook failed"}, StatusData : StatusDataValues]

machineStatusValid(status) ==
    status \in {"pending", "started", "stopped", "error", "down"}

machineValidateSetPendingAllowed(doc, allowPending) ==
    IF ~machineStatusValid(doc.Status) THEN <<"cannot set invalid status", doc.Status>>
    ELSE IF doc.Status = "down" THEN <<"cannot set status", doc.Status>>
    ELSE IF doc.Status = "error" /\ doc.StatusInfo = ""
    THEN <<"cannot set status", doc.Status, "without info">>
    ELSE IF doc.StatusData # "nil" /\ doc.Status # "error"
    THEN <<"cannot set status data when status is", doc.Status>>
    ELSE Nil

\* machineStatusDoc.validateSet
machineValidateSet(doc, allowPending) ==
    IF ~machineStatusValid(doc.Status) THEN <<"cannot set invalid status", doc.Status>>
    ELSE IF doc.Status = "pending" /\ ~allowPending THEN <<"cannot set status", doc.Status>>
    ELSE IF doc.Status = "down" THEN <<"cannot set status", doc.Status>>
    ELSE IF doc.Status = "error" /\ doc.StatusInfo = ""
    THEN <<"cannot set status", doc.Status, "without info">>
    ELSE IF doc.StatusData # "nil" /\ doc.Status # "error"
    THEN <<"cannot set status data when status is", doc.Status>>
    ELSE Nil

unitAgentStatusValid(status) ==
    status \in {"allocating", "rebooting", "executing", "idle", "failed", "lost", "error",
                "pending", "started", "stopped"}

\* unitAgentStatusDoc.validateSet
unitAgentValidateSet(doc) ==
    IF ~unitAgentStatusValid(doc.Status) THEN <<"cannot set invalid status", doc.Status>>
    ELSE IF doc.Status \in {"pending", "down", "started", "stopped"}
    THEN <<"status", doc.Status, "is deprecated and invalid">>
    ELSE IF doc.Status \in {"allocating", "lost"} THEN <<"cannot set status", doc.Status>>
    ELSE IF doc.Status = "error" /\ doc.StatusInfo = ""
    THEN <<"cannot set status", doc.Status, "without info">>
    ELSE IF doc.StatusData # "nil" /\ doc.Status # "error"
    THEN <<"cannot set status data when status is", doc.Status>>
    ELSE Nil

unitStatusValid(status) ==
    status \in {"blocked", "maintenance", "waiting", "active", "unknown", "terminated"}

\* unitStatusDoc.validateSet
unitValidateSet(doc) ==
    IF ~unitStatusValid(doc.Status) THEN <<"cannot set invalid status", doc.Status>>
    ELSE Nil

\* new*StatusDoc: the document when validateSet accepts it, else the error
NewStatusDoc(doc, err) ==
    IF err # Nil THEN [doc |-> <<>>, err |-> err] ELSE [doc |-> <<doc>>, err |-> Nil]

WorkloadMatchesCall ==
    /\ fres = <<>>
    /\ fargs.fn = "WorkloadMatches"
    /\ fres' = <<WorkloadMatches(fargs.status, fargs.candidate)>>
    /\ UNCHANGED fargs

\* Status.Matches: the candidate is rewritten, then compared
Matches(status, candidate) ==
    IF candidate = "down" THEN status = "lost"
    ELSE IF candidate = "started" THEN status = "active"
    ELSE IF candidate = "stopped" THEN status = "stopping"
    ELSE status = candidate

MatchesCall ==
    /\ fres = <<>>
    /\ fargs.fn = "Matches"
    /\ fres' = <<Matches(fargs.status, fargs.candidate)>>
    /\ UNCHANGED fargs

newMachineStatusDoc ==
    /\ fres = <<>>
    /\ fargs.fn = "newMachineStatusDoc"
    /\ fres' = <<NewStatusDoc(fargs.doc, machineValidateSet(fargs.doc, fargs.allowPending))>>
    /\ UNCHANGED fargs

newUnitAgentStatusDoc ==
    /\ fres = <<>>
    /\ fargs.fn = "newUnitAgentStatusDoc"
    /\ fres' = <<NewStatusDoc(fargs.doc, unitAgentValidateSet(fargs.doc))>>
    /\ UNCHANGED fargs

newUnitStatusDoc ==
    /\ fres = <<>>
    /\ fargs.fn = "newUnitStatusDoc"
    /\ fres' = <<NewStatusDoc(fargs.doc, unitValidateSet(fargs.doc))>>
    /\ UNCHANGED fargs

(***************************************************************************)
(* The api-info command, cmd/juju/commands: apiInfoCommand                 *)
(***************************************************************************)

\* the longest list of field arguments in the model
MaxFields == 2

\* the field names Init knows, and a name it does not know
FieldNames == {"user", "password", "environ-uuid", "controllers", "ca-cert", "server-uuid"}

FieldArgs == FieldNames \cup {"bogus"}

FieldLists == UNION { [1..n -> FieldArgs] : n \in 0..MaxFields }

\* what the configuration store holds for the model
StoredCredentials == [User |-> "admin", Password |-> "sekrit"]

StoredEndpoint ==
    [ModelUUID |-> "373b309b", ServerUUID |-> "58a1f2d0",
     Addresses |-> <<"localhost:17070", "10.0.3.1:17070">>, CACert |-> "CERT"]

\* SetFlags and the flag parsing: --refresh and --password, both false by default
SetFlags(refreshFlag, passwordFlag) ==
    [refresh |-> refreshFlag, user |-> FALSE, password |-> passwordFlag, cacert |-> FALSE,
     servers |-> FALSE, modelUUID |-> FALSE, srvuuid |-> FALSE, fields |-> <<>>]

\* the loop of Init over the field arguments from position i on
RECURSIVE InitFields(_, _, _, _)
InitFields(c, args, i, unknown) ==
    IF i > Len(args) THEN [c |-> c, unknown |-> unknown]
    ELSE LET name == args[i] IN
         CASE name = "user" -> InitFields([c EXCEPT !.user = TRUE], args, i + 1, unknown)
           [] name = "password" -> InitFields([c EXCEPT !.password = TRUE], args, i + 1, unknown)
           [] name = "environ-uuid" -> InitFields([c EXCEPT !.modelUUID = TRUE], args, i + 1, unknown)
           [] name = "controllers" -> InitFields([c EXCEPT !.servers = TRUE], args, i + 1, unknown)
           [] name = "ca-cert" -> InitFields([c EXCEPT !.cacert = TRUE], args, i + 1, unknown)
           [] name = "server-uuid" -> InitFields([c EXCEPT !.srvuuid = TRUE], args, i + 1, unknown)
           [] OTHER -> InitFields(c, args, i + 1, Append(unknown, name))

\* Init that puts the password into the default field set
apiInfoInitDefaultsPassword(c0, args) ==
    LET c == [c0 EXCEPT !.fields = args] IN
    IF Len(args) = 0
    THEN [c |-> [c EXCEPT !.user = TRUE, !.password = TRUE, !.modelUUID = TRUE,
                          !.srvuuid = TRUE, !.servers = TRUE, !.cacert = TRUE],
          err |-> Nil]
    ELSE LET r == InitFields(c, args, 1, <<>>) IN
         [c |-> r.c,
          err |-> IF Len(r.unknown) > 0 THEN <<"unknown fields">> \o r.unknown ELSE Nil]

\* apiInfoCommand.Init: the command after Init, and the error Init returns
apiInfoInit(c0, args) ==
    LET c == [c0 EXCEPT !.fields = args] IN
    IF Len(args) = 0
    THEN [c |-> [c EXCEPT !.user = TRUE, !.modelUUID = TRUE, !.srvuuid = TRUE,
                          !.servers = TRUE, !.cacert = TRUE],
          err |-> Nil]
    ELSE LET r == InitFields(c, args, 1, <<>>) IN
         [c |-> r.c,
          err |-> IF Len(r.unknown) > 0 THEN <<"unknown fields">> \o r.unknown ELSE Nil]

\* the zero InfoData
NoInfoData ==
    [User |-> "", Password |-> "", ModelUUID |-> "", ServerUUID |-> "",
     Controllers |-> <<>>, CACert |-> ""]

\* the InfoData Run fills from the credentials and the endpoint
apiInfoResult(c, credentials, apiendpoint) ==
    [User |-> IF c.user THEN credentials.User ELSE "",
     Password |-> IF c.password THEN credentials.Password ELSE "",
     ModelUUID |-> IF c.modelUUID THEN apiendpoint.ModelUUID ELSE "",
     ServerUUID |-> IF c.srvuuid THEN apiendpoint.ServerUUID ELSE "",
     Controllers |-> IF c.servers THEN apiendpoint.Addresses ELSE <<>>,
     CACert |-> IF c.cacert THEN apiendpoint.CACert ELSE ""]

\* InfoData.field: the value of a field as a list of lines
InfoDataField(i, name) ==
    CASE name = "user" -> <<i.User>>
      [] name = "password" -> <<i.Password>>
      [] name = "environ-uuid" -> <<i.ModelUUID>>
      [] name = "controllers" -> i.Controllers
      [] name = "ca-cert" -> <<i.CACert>>
      [] name = "server-uuid" -> <<i.ServerUUID>>

\* the keys of InfoData in the order of its fields, and the omitempty rule of
\* its tags: a document lists the fields that are not empty
InfoDataKeys == <<"user", "password", "environ-uuid", "server-uuid", "controllers", "ca-cert">>

FormatDocument(i) ==
    LET entry(k) == [key |-> InfoDataKeys[k], lines |-> InfoDataField(i, InfoDataKeys[k])]
    IN  SelectSeq([k \in 1..Len(InfoDataKeys) |-> entry(k)],
                  LAMBDA e : e.lines \notin {<<>>, <<"">>})

\* apiInfoCommand.format, the default formatter: one field is printed bare
apiInfoFormat(c, value) ==
    IF Len(c.fields) = 1
    THEN <<[key |-> "", lines |-> InfoDataField(value, c.fields[1])]>>
    ELSE FormatDocument(value)

\* what endpoint and creds can answer
ConnectionAnswers == {"ok", "endpoint fails", "creds fails"}

\* apiInfoCommand.Run: the error, the result and what was written
apiInfoRun(c, answer, formatter) ==
    CASE answer = "endpoint fails" ->
             [err |-> <<"cannot get endpoint">>, result |-> NoInfoData, out |-> <<>>]
      [] answer = "creds fails" ->
             [err |-> <<"cannot get credentials">>, result |-> NoInfoData, out |-> <<>>]
      [] OTHER ->
             LET result == apiInfoResult(c, StoredCredentials, StoredEndpoint) IN
             [err |-> Nil, result |-> result,
              out |-> IF formatter = "default" THEN apiInfoFormat(c, result)
                      ELSE FormatDocument(result)]

\* the command line is parsed and Init is called
ApiInfoInit ==
    /\ fargs.fn = "api-info"
    /\ fres = <<>>
    /\ fres' = <<apiInfoInit(SetFlags(fargs.refresh, fargs.password), fargs.args)>>
    /\ UNCHANGED fargs

\* Run is called on a command whose Init returned no error
ApiInfoRun ==
    /\ fargs.fn = "api-info"
    /\ Len(fres) = 1
    /\ fres[1].err = Nil
    /\ fres' = Append(fres, apiInfoRun(fres[1].c, fargs.answer, fargs.format))
    /\ UNCHANGED fargs

(***************************************************************************)
(* Security groups: setUpGroups and ensureGroup, provider.go 826-915       *)
(***************************************************************************)

\* the number of setUpGroups calls of a run in the model
MaxSetUps == 2

MachineIds == {"0", "1"}

\* group names: "juju-<env>", "juju-<env>-<machine>" and "juju-<env>-global"
jujuGroupName == <<"juju", "test">>

machineGroupName(machineId) == jujuGroupName \o <<machineId>>

globalGroupName == jujuGroupName \o <<"global">>

mgoPort == 37017

\* the rules setUpGroups asks for on the environment's group
JujuGroupRules ==
    << [IPProtocol |-> "tcp", FromPort |-> 22, ToPort |-> 22, Cidr |-> "0.0.0.0/0"],
       [IPProtocol |-> "tcp", FromPort |-> mgoPort, ToPort |-> mgoPort, Cidr |-> "0.0.0.0/0"],
       [IPProtocol |-> "tcp", FromPort |-> 1, ToPort |-> 65535, Cidr |-> ""],
       [IPProtocol |-> "udp", FromPort |-> 1, ToPort |-> 65535, Cidr |-> ""],
       [IPProtocol |-> "icmp", FromPort |-> -1, ToPort |-> -1, Cidr |-> ""] >>

\* nova without any security group
NoGroups == [groups |-> {}, rules |-> {}]

zeroGroup == [Id |-> 0, Name |-> <<>>]

GroupNamed(nv, name) == CHOOSE g \in nv.groups : g.Name = name

\* the error of a request nova did not serve
ProviderErr(op) == <<"provider error", op>>

\* nova.CreateSecurityGroup; fault: the request fails for another reason
\* than a duplicate
CreateSecurityGroup(nv, name, fault) ==
    IF fault THEN [answer |-> "error", nova |-> nv, group |-> zeroGroup]
    ELSE IF \E g \in nv.groups : g.Name = name
    THEN [answer |-> "duplicate", nova |-> nv, group |-> zeroGroup]
    ELSE LET g == [Id |-> Cardinality(nv.groups) + 1, Name |-> name]
         IN  [answer |-> "ok", nova |-> [nv EXCEPT !.groups = @ \cup {g}], group |-> g]

\* nova.SecurityGroupByName
SecurityGroupByName(nv, name, fault) ==
    IF fault \/ ~\E g \in nv.groups : g.Name = name
    THEN [answer |-> "error", group |-> zeroGroup]
    ELSE [answer |-> "ok", group |-> GroupNamed(nv, name)]

\* nova.CreateSecurityGroupRule for a rule with its ParentGroupId
CreateSecurityGroupRule(nv, gid, rule, fault) ==
    IF fault THEN [answer |-> "error", nova |-> nv]
    ELSE IF <<gid, rule>> \in nv.rules THEN [answer |-> "duplicate", nova |-> nv]
    ELSE [answer |-> "ok", nova |-> [nv EXCEPT !.rules = @ \cup {<<gid, rule>>}]]

\* the loop over the rules when a duplicate rule is an error like any other
RECURSIVE AddRulesDuplicateFatal(_, _, _, _, _, _)
AddRulesDuplicateFatal(nv, group, rules, i, failAt, calls) ==
    IF i > Len(rules) THEN [nova |-> nv, group |-> group, err |-> Nil, calls |-> calls]
    ELSE LET r == CreateSecurityGroupRule(nv, group.Id, rules[i], Len(calls) + 1 = failAt)
             call == NovaCall("CreateSecurityGroupRule", <<group.Id, i>>, r.answer)
         IN  IF r.answer # "ok"
             THEN [nova |-> r.nova, group |-> zeroGroup,
                   err |-> ProviderErr("CreateSecurityGroupRule"), calls |-> Append(calls, call)]
             ELSE AddRulesDuplicateFatal(r.nova, group, rules, i + 1, failAt, Append(calls, call))

\* the loop of ensureGroup over the rules from position i on; calls holds the
\* requests setUpGroups has made so far, the one numbered failAt fails
RECURSIVE AddRules(_, _, _, _, _, _)
AddRules(nv, group, rules, i, failAt, calls) ==
    IF i > Len(rules) THEN [nova |-> nv, group |-> group, err |-> Nil, calls |-> calls]
    ELSE LET r == CreateSecurityGroupRule(nv, group.Id, rules[i], Len(calls) + 1 = failAt)
             call == NovaCall("CreateSecurityGroupRule", <<group.Id, i>>, r.answer)
         IN  IF r.answer = "error"
             THEN [nova |-> r.nova, group |-> zeroGroup,
                   err |-> ProviderErr("CreateSecurityGroupRule"), calls |-> Append(calls, call)]
             ELSE AddRules(r.nova, group, rules, i + 1, failAt, Append(calls, call))

\* ensureGroup: the group, the error, nova afterwards and the requests made
ensureGroup(nv, name, rules, failAt, calls) ==
    LET c == CreateSecurityGroup(nv, name, Len(calls) + 1 = failAt)
        calls1 == Append(calls, NovaCall("CreateSecurityGroup", name, c.answer))
        f == SecurityGroupByName(nv, name, Len(calls1) + 1 = failAt)
        calls2 == Append(calls1, NovaCall("SecurityGroupByName", name, f.answer))
    IN  CASE c.answer = "error" ->
                 [nova |-> nv, group |-> zeroGroup,
                  err |-> ProviderErr("CreateSecurityGroup"), calls |-> calls1]
          [] c.answer = "duplicate" /\ f.answer = "error" ->
                 [nova |-> nv, group |-> zeroGroup,
                  err |-> ProviderErr("SecurityGroupByName"), calls |-> calls2]
          [] c.answer = "duplicate" /\ f.answer = "ok" ->
                 AddRules(nv, f.group, rules, 1, failAt, calls2)
          [] OTHER -> AddRules(c.nova, c.group, rules, 1, failAt, calls1)

FirewallModes == {"instance", "global"}

\* setUpGroups: the groups (nil is <<>>), the error, nova afterwards, the
\* requests made and what each ensureGroup returned
setUpGroups(nv, machineId, mode, failAt) ==
    LET j == ensureGroup(nv, jujuGroupName, JujuGroupRules, failAt, <<>>)
        m == ensureGroup(j.nova,
                         IF mode = "instance" THEN machineGroupName(machineId)
                         ELSE globalGroupName,
                         <<>>, failAt, j.calls)
    IN  IF j.err # Nil
        THEN [groups |-> <<>>, err |-> j.err, nova |-> j.nova, calls |-> j.calls,
              ensured |-> <<[group |-> j.group, err |-> j.err]>>]
        ELSE [groups |-> IF m.err # Nil THEN <<>> ELSE <<j.group, m.group>>,
              err |-> m.err, nova |-> m.nova, calls |-> m.calls,
              ensured |-> <<[group |-> j.group, err |-> j.err],
                            [group |-> m.group, err |-> m.err]>>]

\* the most requests one setUpGroups makes
MaxRequests == Len(JujuGroupRules) + 4

\* one call of setUpGroups on the environ; failAt = 0: no request fails
SetUpGroupsCall ==
    /\ fargs.fn = "setUpGroups"
    /\ Len(fres) < MaxSetUps
    /\ \E machineId \in MachineIds, failAt \in 0..MaxRequests :
          LET r == setUpGroups(secGroups, machineId, fargs.mode, failAt)
          IN  /\ secGroups' = r.nova
              /\ fres' = Append(fres, [machineId |-> machineId, failAt |-> failAt,
                                       groups |-> r.groups, err |-> r.err,
                                       calls |-> r.calls, ensured |-> r.ensured])
    /\ UNCHANGED fargs

(***************************************************************************)
(* instance.DNSName and instance.WaitDNSName, provider.go 210-235          *)
(***************************************************************************)

\* the number of calls made on one instance in the model
MaxDNSCalls == 3

\* what nova.GetServer can answer for the instance: a failure, or the
\* server with one of these address maps, ranged over in this order
GetServerAnswers ==
    { [ok |-> FALSE, addresses |-> <<>>, order |-> <<>>] }
    \cup { [ok |-> TRUE, addresses |-> a, order |-> o] :
             a \in { <<>>,
                     [private |-> <<IPAddress("private", 1, 6)>>],
                     [private |-> <<IPAddress("private", 1, 4)>>],
                     [private |-> <<IPAddress("private", 1, 4), IPAddress("private", 2, 4)>>],
                     [public |-> <<IPAddress("public", 1, 4)>>] },
             o \in { <<>>, <<"private">>, <<"public">> } }

GetServerErr == <<"cannot get server">>

\* DNSName that asks nova whatever the instance holds
DNSNameAlwaysQueries(address, answer) ==
    IF ~answer.ok THEN [addr |-> "", err |-> GetServerErr, address |-> address, queries |-> 1]
    ELSE LET r == instanceAddress(answer.addresses, answer.order)
         IN  IF r.err # Nil
             THEN [addr |-> "", err |-> r.err, address |-> r.addr, queries |-> 1]
             ELSE [addr |-> r.addr, err |-> Nil, address |-> r.addr, queries |-> 1]

\* instance.DNSName on an instance whose address field holds address, with
\* the answer nova.GetServer gives if it is asked: the result, the address
\* field afterwards and the number of requests made
DNSName(address, answer) ==
    IF address # "" THEN [addr |-> address, err |-> Nil, address |-> address, queries |-> 0]
    ELSE IF ~answer.ok
    THEN [addr |-> "", err |-> GetServerErr, address |-> address, queries |-> 1]
    ELSE LET r == instanceAddress(answer.addresses, answer.order)
         IN  IF r.err # Nil
             THEN [addr |-> "", err |-> r.err, address |-> r.addr, queries |-> 1]
             ELSE [addr |-> r.addr, err |-> Nil, address |-> r.addr, queries |-> 1]

\* WaitDNSName that goes on after every error
WaitStopsOnSuccessOnly(err) == err = Nil

\* the test that ends the loop of WaitDNSName
WaitStops(err) == err = Nil \/ err # ErrNoDNSName

TimedOut == <<"timed out trying to get DNS address for", "1">>

\* the loop of WaitDNSName from attempt slot i on; tries holds the results
\* of the DNSName calls made so far
RECURSIVE WaitFrom(_, _, _, _, _)
WaitFrom(address, answers, i, tries, queries) ==
    IF i > Len(answers)
    THEN [addr |-> "", err |-> TimedOut, address |-> address, queries |-> queries,
          tries |-> tries]
    ELSE LET d == DNSName(address, answers[i])
             tries1 == Append(tries, [addr |-> d.addr, err |-> d.err])
         IN  IF WaitStops(d.err)
             THEN [addr |-> d.addr, err |-> d.err, address |-> d.address,
                   queries |-> queries + d.queries, tries |-> tries1]
             ELSE WaitFrom(d.address, answers, i + 1, tries1, queries + d.queries)

\* instance.WaitDNSName; answers: what nova would answer in each slot of longAttempt
WaitDNSName(address, answers) == WaitFrom(address, answers, 1, <<>>, 0)

\* a new instance: startInstance builds it as &instance{e, detail, ""}
NewInstance == [Id |-> 1, address |-> ""]

DNSNameCall ==
    /\ fargs.fn = "DNSName"
    /\ Len(fres) < MaxDNSCalls
    /\ \E answer \in GetServerAnswers :
          LET d == DNSName(inst.address, answer)
          IN  /\ answer.order \in KeyOrders(DOMAIN answer.addresses)
              /\ inst' = [inst EXCEPT !.address = d.address]
              /\ fres' = Append(fres, [fn |-> "DNSName", addr |-> d.addr, err |-> d.err,
                                       queries |-> d.queries, tries |-> <<>>])
    /\ UNCHANGED fargs

WaitDNSNameCall ==
    /\ fargs.fn = "DNSName"
    /\ Len(fres) < MaxDNSCalls
    /\ \E answers \in [1..MaxLongAttempts -> GetServerAnswers] :
          LET w == WaitDNSName(inst.address, answers)
          IN  /\ \A i \in 1..MaxLongAttempts :
                    answers[i].order \in KeyOrders(DOMAIN answers[i].addresses)
              /\ inst' = [inst EXCEPT !.address = w.address]
              /\ fres' = Append(fres, [fn |-> "WaitDNSName", addr |-> w.addr, err |-> w.err,
                                       queries |-> w.queries, tries |-> w.tries])
    /\ UNCHANGED fargs

(***************************************************************************)
(* The environ's fields and ecfgMutex, provider.go 144-281 and 440-475     *)
(***************************************************************************)

\* the configurations SetConfig can be given; the environ is opened with 0
MaxConfigs == 2

EnvironFields == {"name", "ecfgUnlocked", "novaUnlocked", "storageUnlocked",
                  "publicStorageUnlocked"}

\* the environ after SetConfig(cfg) has run alone
ConfiguredEnviron(cfg) == [f \in EnvironFields |-> cfg]

Access(field, mode) == [field |-> field, mode |-> mode]

\* what each method does with the fields: whether it takes ecfgMutex, and
\* its reads and writes in program order
EnvironMethods ==
    [ SetConfig |-> [locks |-> TRUE,
                     accesses |-> << Access("name", "w"), Access("ecfgUnlocked", "w"),
                                     Access("novaUnlocked", "w"), Access("storageUnlocked", "w"),
                                     Access("publicStorageUnlocked", "w") >>],
      ecfg |-> [locks |-> TRUE, accesses |-> <<Access("ecfgUnlocked", "r")>>],
      nova |-> [locks |-> TRUE, accesses |-> <<Access("novaUnlocked", "r")>>],
      Storage |-> [locks |-> TRUE, accesses |-> <<Access("storageUnlocked", "r")>>],
      PublicStorage |-> [locks |-> TRUE, accesses |-> <<Access("publicStorageUnlocked", "r")>>],
      Name |-> [locks |-> FALSE, accesses |-> <<Access("name", "r")>>],
      machineFullName |-> [locks |-> FALSE, accesses |-> <<Access("name", "r")>>] ]

IdleCaller == [pc |-> "idle", op |-> "", cfg |-> 0, next |-> 1, acc |-> <<>>, got |-> <<>>]

\* a method is called; SetConfig returns at once when newConfig rejects cfg
EnvironCall(p) ==
    /\ eproc[p].pc = "idle"
    /\ \E op \in DOMAIN EnvironMethods, cfg \in 1..MaxConfigs, valid \in BOOLEAN :
          /\ op # "SetConfig" => (cfg = 1 /\ valid)
          /\ eproc' = [eproc EXCEPT ![p] =
                [@ EXCEPT !.op = op, !.cfg = cfg,
                          !.pc = IF ~valid THEN "done"
                                 ELSE IF EnvironMethods[op].locks THEN "lock" ELSE "access"]]
    /\ UNCHANGED <<environ, ecfgMutex>>

\* e.ecfgMutex.Lock()
EnvironLock(p) ==
    /\ eproc[p].pc = "lock"
    /\ ecfgMutex = ""
    /\ ecfgMutex' = p
    /\ eproc' = [eproc EXCEPT ![p] = [@ EXCEPT !.pc = "access"]]
    /\ UNCHANGED environ

\* the next read or write of the method begins
EnvironAccessBegins(p) ==
    /\ eproc[p].pc = "access"
    /\ eproc[p].acc = <<>>
    /\ eproc[p].next <= Len(EnvironMethods[eproc[p].op].accesses)
    /\ eproc' = [eproc EXCEPT ![p] =
          [@ EXCEPT !.acc = <<EnvironMethods[eproc[p].op].accesses[eproc[p].next]>>]]
    /\ UNCHANGED <<environ, ecfgMutex>>

\* another caller is writing the field p is reading or writing
Races(p) ==
    /\ eproc[p].acc # <<>>
    /\ \E q \in Procs \ {p} :
          /\ eproc[q].acc # <<>>
          /\ eproc[q].acc[1].field = eproc[p].acc[1].field
          /\ "w" \in {eproc[p].acc[1].mode, eproc[q].acc[1].mode}

\* the read or write ends; a read that races with a write can yield the old
\* value, the new value or a torn value (-1)
EnvironAccessEnds(p) ==
    /\ eproc[p].pc = "access"
    /\ eproc[p].acc # <<>>
    /\ LET a == eproc[p].acc[1]
           last == eproc[p].next = Len(EnvironMethods[eproc[p].op].accesses)
           pc == IF ~last THEN "access"
                 ELSE IF EnvironMethods[eproc[p].op].locks THEN "unlock" ELSE "done"
       IN  IF a.mode = "w"
           THEN /\ environ' = [environ EXCEPT ![a.field] = eproc[p].cfg]
                /\ eproc' = [eproc EXCEPT ![p] =
                      [@ EXCEPT !.acc = <<>>, !.next = @ + 1, !.pc = pc]]
           ELSE /\ \E v \in {environ[a.field]}
                            \cup (IF Races(p) THEN {-1} \cup (0..MaxConfigs) ELSE {}) :
                     eproc' = [eproc EXCEPT ![p] =
                         [@ EXCEPT !.acc = <<>>, !.next = @ + 1, !.pc = pc, !.got = <<v>>]]
                /\ UNCHANGED environ
    /\ UNCHANGED ecfgMutex

\* e.ecfgMutex.Unlock()
EnvironUnlock(p) ==
    /\ eproc[p].pc = "unlock"
    /\ ecfgMutex' = ""
    /\ eproc' = [eproc EXCEPT ![p] = [@ EXCEPT !.pc = "done"]]
    /\ UNCHANGED environ

\* the caller goes on to another call
EnvironReturn(p) ==
    /\ eproc[p].pc = "done"
    /\ eproc' = [eproc EXCEPT ![p] = IdleCaller]
    /\ UNCHANGED <<environ, ecfgMutex>>

(***************************************************************************)
(* The retry loops of the provider, `for a := s.Start(); a.Next(); {...}`  *)
(***************************************************************************)

\* AttemptStrategy: Next grants a first attempt whatever the budget, then
\* one attempt per slot of the budget
AttemptNext(made, budget) == made = 0 \/ made < budget

AttemptBudget(strategy) ==
    IF strategy = "shortAttempt" THEN MaxShortAttempts ELSE MaxLongAttempts

\* the loops: the strategy, what one attempt can end in, and the outcomes
\* that leave the loop (break, return, or the loop condition of StateInfo)
RetryLoops ==
    [ Bootstrap |-> [strategy |-> "shortAttempt",
                     outcomes |-> {"state found", "not found", "storage error"},
                     leaves |-> {"not found", "storage error"}],
      RunServer |-> [strategy |-> "shortAttempt",
                     outcomes |-> {"ok", "not found", "error"},
                     leaves |-> {"ok", "error"}],
      Instances |-> [strategy |-> "shortAttempt",
                     outcomes |-> {"none missing", "some found", "none found"},
                     leaves |-> {"none missing"}],
      assignPublicIP |-> [strategy |-> "longAttempt",
                          outcomes |-> {"ok", "error"},
                          leaves |-> {"ok"}],
      WaitDNSName |-> [strategy |-> "longAttempt",
                       outcomes |-> {"ok", "no DNS name yet", "error"},
                       leaves |-> {"ok", "error"}],
      StateInfo |-> [strategy |-> "longAttempt",
                     outcomes |-> {"address", "no address", "error"},
                     leaves |-> {"address", "error"}],
      fetchMetadata |-> [strategy |-> "shortAttempt",
                         outcomes |-> {"ok", "get failed", "bad http response", "read failed"},
                         leaves |-> {"ok"}] ]

\* the outcomes of a last attempt after which the code goes on without an error
LoopSuccesses ==
    [ Bootstrap |-> {"not found"}, RunServer |-> {"ok"},
      Instances |-> {"none missing"}, assignPublicIP |-> {"ok"},
      WaitDNSName |-> {"ok"}, StateInfo |-> {"address"}, fetchMetadata |-> {"ok"} ]

\* the loops return no error when the budget is used up
LoopResultSilentTimeout(name, tries) ==
    IF tries[Len(tries)] \in RetryLoops[name].leaves \ LoopSuccesses[name]
    THEN <<"error", tries[Len(tries)]>>
    ELSE Nil

\* the error the code after the loop returns, Nil when it goes on
LoopResult(name, tries) ==
    LET last == tries[Len(tries)]
    IN  CASE name = "Bootstrap" ->
                 IF last = "state found" THEN <<"environment is already bootstrapped">>
                 ELSE IF last = "not found" THEN Nil
                 ELSE <<"cannot query old bootstrap state", last>>
          [] name = "RunServer" ->
                 IF last = "ok" THEN Nil ELSE <<"cannot run instance", last>>
          [] name = "Instances" ->
                 IF last = "none missing" THEN Nil
                 ELSE IF last = "some found" THEN <<"only some instances were found">>
                 ELSE <<"no instances found">>
          [] name = "assignPublicIP" ->
                 IF last = "ok" THEN Nil ELSE <<last>>
          [] name = "WaitDNSName" ->
                 IF last = "ok" THEN Nil
                 ELSE IF last = "error" THEN <<last>>
                 ELSE <<"timed out trying to get DNS address for", "1">>
          [] name = "StateInfo" ->
                 IF last = "address" THEN Nil
                 ELSE IF last = "error" THEN <<last>>
                 ELSE <<"timed out waiting for mgo address from", "1">>
          [] name = "fetchMetadata" ->
                 IF last = "ok" THEN Nil ELSE <<"cannot get", last>>

NoLoop == [name |-> "", pc |-> "idle", tries |-> <<>>, running |-> 0, err |-> Nil]

\* the function that holds the loop is called: s.Start()
AttemptStart ==
    /\ aloop.pc = "idle"
    /\ \E name \in DOMAIN RetryLoops :
          aloop' = [aloop EXCEPT !.name = name, !.pc = "next"]

\* a.Next(): another attempt, or the end of the loop
AttemptNextSlot ==
    /\ aloop.pc = "next"
    /\ aloop' = IF AttemptNext(Len(aloop.tries), AttemptBudget(RetryLoops[aloop.name].strategy))
                THEN [aloop EXCEPT !.pc = "body", !.running = Len(aloop.tries) + 1]
                ELSE [aloop EXCEPT !.pc = "after"]

\* the body of the loop: one request and the test on its outcome
AttemptBody ==
    /\ aloop.pc = "body"
    /\ \E outcome \in RetryLoops[aloop.name].outcomes :
          aloop' = [aloop EXCEPT !.tries = Append(@, outcome), !.running = 0,
                                 !.pc = IF outcome \in RetryLoops[aloop.name].leaves
                                        THEN "after" ELSE "next"]

\* the code after the loop
AttemptAfter ==
    /\ aloop.pc = "after"
    /\ aloop' = [aloop EXCEPT !.pc = "done", !.err = LoopResult(aloop.name, aloop.tries)]

(***************************************************************************)
(* The current-model and current-controller files, cmd/modelcmd/files.go   *)
(***************************************************************************)

\* the number of calls made on the files in a run of the model
MaxFileCalls == 3

\* names are sequences of characters; one with a leading blank and the
\* empty name are among them
FileNames == { <<"a">>, <<"b">>, <<" ", "a">>, <<>> }

WhiteSpace == {" ", "\n", "\t"}

\* strings.TrimSpace
TrimSpace(s) ==
    LET keep == {i \in 1..Len(s) : s[i] \notin WhiteSpace}
    IN  IF keep = {} THEN <<>>
        ELSE LET lo == CHOOSE i \in keep : \A j \in keep : i <= j
                 hi == CHOOSE i \in keep : \A j \in keep : j <= i
             IN  SubSeq(s, lo, hi)

\* the content WriteCurrentModel and WriteCurrentController write for a name
FileContent(name) == name \o <<"\n">>

\* a file that does not exist is <<>>, one that exists is <<its content>>
NoFiles == [model |-> <<>>, controller |-> <<>>]

FileOps == {"WriteCurrentModel", "WriteCurrentController", "ReadCurrentModel",
            "ReadCurrentController", "CurrentConnectionName"}

IsWrite(op) == op \in {"WriteCurrentModel", "WriteCurrentController"}

\* the file a call writes, or reads in its phase
OwnFile(op, phase) ==
    IF op \in {"WriteCurrentModel", "ReadCurrentModel"} THEN "model"
    ELSE IF op = "CurrentConnectionName" /\ phase = 1 THEN "model"
    ELSE "controller"

\* the file a write removes is the file it has written
OtherFileIsOwn(file) == file

OtherFile(file) == IF file = "model" THEN "controller" ELSE "model"

\* the name a file holds for its readers, <<>> when it holds none
NameIn(file) == IF file = <<>> THEN <<>> ELSE TrimSpace(file[1])

IdleFileCaller ==
    [pc |-> "idle", op |-> "", name |-> <<>>, phase |-> 1, got |-> <<>>,
     err |-> Nil, ret |-> <<>>]

\* one of the functions is called
FileCall(p) ==
    /\ fproc[p].pc = "idle"
    /\ fhist.calls < MaxFileCalls
    /\ \E op \in FileOps, name \in FileNames :
          /\ ~IsWrite(op) => name = <<>>
          /\ fproc' = [fproc EXCEPT ![p] = [IdleFileCaller EXCEPT !.pc = "lock", !.op = op,
                                                                 !.name = name]]
    /\ fhist' = [fhist EXCEPT !.calls = @ + 1]
    /\ UNCHANGED <<files, flock>>

\* acquireEnvironmentLock: the lock is free
FileLock(p) ==
    /\ fproc[p].pc = "lock"
    /\ flock = ""
    /\ flock' = p
    /\ fproc' = [fproc EXCEPT ![p] = [@ EXCEPT !.pc = IF IsWrite(fproc[p].op) THEN "write" ELSE "read"]]
    /\ UNCHANGED <<files, fhist>>

\* acquireEnvironmentLock: LockWithTimeout gives up while another caller
\* holds the lock
FileLockTimeout(p) ==
    /\ fproc[p].pc = "lock"
    /\ flock \notin {"", p}
    /\ fproc' = [fproc EXCEPT ![p] = [@ EXCEPT !.pc = "done", !.err = <<"lock timeout">>]]
    /\ fhist' = IF IsWrite(fproc[p].op) THEN [fhist EXCEPT !.lastWrite = <<>>] ELSE fhist
    /\ UNCHANGED <<files, flock>>

\* ioutil.WriteFile; a write that fails may have truncated the file
FileWrite(p) ==
    /\ fproc[p].pc = "write"
    /\ LET own == OwnFile(fproc[p].op, 1) IN
       \/ /\ files' = [files EXCEPT ![own] = <<FileContent(fproc[p].name)>>]
          /\ fproc' = [fproc EXCEPT ![p] = [@ EXCEPT !.pc = "remove"]]
       \/ /\ \E left \in {files[own], << <<>> >>} : files' = [files EXCEPT ![own] = left]
          /\ fproc' = [fproc EXCEPT ![p] =
                [@ EXCEPT !.pc = "unlock", !.err = <<"unable to write to the file">>]]
    /\ UNCHANGED <<flock, fhist>>

\* os.Remove of the other file; when it fails for another reason than the
\* file not existing, the file just written is removed if that works
FileRemove(p) ==
    /\ fproc[p].pc = "remove"
    /\ LET own == OwnFile(fproc[p].op, 1) IN
       \/ /\ files' = [files EXCEPT ![OtherFile(own)] = <<>>]
          /\ fproc' = [fproc EXCEPT ![p] = [@ EXCEPT !.pc = "unlock"]]
       \/ /\ files[OtherFile(own)] # <<>>
          /\ \E cleaned \in BOOLEAN :
                files' = IF cleaned THEN [files EXCEPT ![own] = <<>>] ELSE files
          /\ fproc' = [fproc EXCEPT ![p] =
                [@ EXCEPT !.pc = "unlock", !.err = <<"cannot remove file">>]]
    /\ UNCHANGED <<flock, fhist>>

\* ioutil.ReadFile and strings.TrimSpace; a file that does not exist reads as ""
FileRead(p) ==
    /\ fproc[p].pc = "read"
    /\ LET file == files[OwnFile(fproc[p].op, fproc[p].phase)] IN
       \/ fproc' = [fproc EXCEPT ![p] = [@ EXCEPT !.pc = "unlock", !.got = NameIn(file)]]
       \/ /\ file # <<>>
          /\ fproc' = [fproc EXCEPT ![p] =
                [@ EXCEPT !.pc = "unlock", !.got = <<>>, !.err = <<"cannot read file">>]]
    /\ UNCHANGED <<files, flock, fhist>>

\* what the call does once its read or write has returned
AfterUnlock(c) ==
    IF c.op # "CurrentConnectionName"
    THEN [c EXCEPT !.pc = "done",
                   !.ret = IF IsWrite(c.op) THEN <<>> ELSE <<[name |-> c.got, is_controller |-> FALSE]>>]
    ELSE IF c.err # Nil
    THEN [c EXCEPT !.pc = "done", !.ret = <<[name |-> <<>>, is_controller |-> FALSE]>>]
    ELSE IF c.got # <<>>
    THEN [c EXCEPT !.pc = "done", !.ret = <<[name |-> c.got, is_controller |-> c.phase = 2]>>]
    ELSE IF c.phase = 1
    THEN [c EXCEPT !.pc = "lock", !.phase = 2]
    ELSE [c EXCEPT !.pc = "done", !.ret = <<[name |-> <<>>, is_controller |-> FALSE]>>]

\* neither file holds a name
NoCurrent(f) == NameIn(f.model) = <<>> /\ NameIn(f.controller) = <<>>

\* defer lock.Unlock(), and the return of the read or write
FileUnlock(p) ==
    /\ fproc[p].pc = "unlock"
    /\ flock' = ""
    /\ fproc' = [fproc EXCEPT ![p] = AfterUnlock(@)]
    /\ fhist' = [fhist EXCEPT
          !.lastWrite = IF ~IsWrite(fproc[p].op) THEN @
                        ELSE IF fproc[p].err # Nil THEN <<>>
                        ELSE <<[op |-> fproc[p].op, name |-> fproc[p].name]>>,
          !.unset = @ \/ NoCurrent(files)]
    /\ UNCHANGED files

\* the caller goes on to its next call
FileReturn(p) ==
    /\ fproc[p].pc = "done"
    /\ fproc' = [fproc EXCEPT ![p] = IdleFileCaller]
    /\ UNCHANGED <<files, flock, fhist>>

FileStep(p) ==
    \/ FileCall(p)
    \/ FileLock(p)
    \/ FileLockTimeout(p)
    \/ FileWrite(p)
    \/ FileRemove(p)
    \/ FileRead(p)
    \/ FileUnlock(p)
    \/ FileReturn(p)

(***************************************************************************)
(* Specifications                                                          *)
(***************************************************************************)

QuietOrch ==
    /\ oargs = NoArgs
    /\ opc = "idle"
    /\ omerged = NoCons
    /\ otools = <<>>
    /\ ocustom = <<>>
    /\ oimage = <<>>
    /\ oresult = NoResult
    /\ oselected = NoTools
    /\ ocalls = <<>>
    /\ oerr = Nil

QuietOS ==
    /\ servers = [id \in ServerIds |-> "none"]
    /\ stateFile = <<>>
    /\ bucket = {}
    /\ proc = [p \in Procs |-> IdleProc]

QuietFn ==
    /\ fargs = <<>>
    /\ fres = <<>>

QuietExt ==
    /\ secGroups = NoGroups
    /\ inst = NewInstance
    /\ environ = ConfiguredEnviron(0)
    /\ ecfgMutex = ""
    /\ eproc = [p \in Procs |-> IdleCaller]
    /\ aloop = NoLoop
    /\ files = NoFiles
    /\ flock = ""
    /\ fproc = [p \in Procs |-> IdleFileCaller]
    /\ fhist = [calls |-> 0, lastWrite |-> <<>>, unset |-> TRUE]


\* the orchestrator before Bootstrap is called, with any configuration
InitOrch ==
    /\ envcfg \in ConfigValues
    /\ QuietOrch
    /\ QuietOS
    /\ QuietFn
    /\ QuietExt

SpecOrch == InitOrch /\ [][NextOrch /\ UNCHANGED <<osVars, fnVars, extVars>>]_vars

\* the provider's configurations: with and without admin-secret and CA certificate
OSConfigValues ==
    { [adminSecret |-> a, authorizedKeys |-> <<"ssh-rsa AAAA user@host">>,
       caCert |-> c, caKey |-> "KEY", agentVersion |-> VersionCurrent] :
         a \in {"", "sekrit"}, c \in {"", "CERT"} }

\* a new environment: no server, no bootstrap state
InitBoot ==
    /\ envcfg \in OSConfigValues
    /\ QuietOrch
    /\ QuietOS
    /\ QuietFn
    /\ QuietExt

NextBoot ==
    \E p \in Procs :
        \/ \E u \in BOOLEAN : EnvironBootstrap(p, u)
        \/ BootstrapCheckState(p)
        \/ BootstrapTools(p)
        \/ StartInstance(p)
        \/ StartAllocatePublicIP(p)
        \/ StartPrepare(p)
        \/ StartRunServer(p)
        \/ StartGetServer(p)
        \/ StartAssignPublicIP(p)
        \/ BootstrapSaveState(p)
        \/ \E insts \in IdSeqs(ServerIds, 1) : Destroy(p, insts)

SpecBoot == InitBoot /\ [][NextBoot /\ UNCHANGED <<fnVars, extVars>>]_vars

\* an environment that holds servers
InitServers ==
    /\ envcfg \in {c \in OSConfigValues : c.adminSecret # "" /\ c.caCert # ""}
    /\ QuietOrch
    /\ servers \in [ServerIds -> {"none", "BUILD", "ACTIVE", "ERROR"}]
    /\ stateFile \in {<<>>} \cup {<<id>> : id \in ServerIds}
    /\ bucket = {"tools"}
    /\ proc = [p \in Procs |-> IdleProc]
    /\ QuietFn
    /\ QuietExt

NextTeardown ==
    \/ \E insts \in IdSeqs(ServerIds \cup {Foreign}, MaxIds) : StopInstances("p1", insts)
    \/ \E insts \in IdSeqs(ServerIds, MaxIds) : Destroy("p1", insts)
    \/ AllInstances("p1")

SpecTeardown == InitServers /\ [][NextTeardown /\ UNCHANGED <<fnVars, extVars>>]_vars

NextInstances ==
    \/ \E ids \in IdSeqs(ServerIds, MaxIds) : Instances("p1", ids)
    \/ InstancesAttempt("p1")

SpecInstances == InitServers /\ [][NextInstances /\ UNCHANGED <<fnVars, extVars>>]_vars

\* nothing but the function under study runs
QuietConfig ==
    [adminSecret |-> "sekrit", authorizedKeys |-> <<"ssh-rsa AAAA user@host">>,
     caCert |-> "CERT", caKey |-> "KEY", agentVersion |-> VersionCurrent]

Quiet ==
    /\ envcfg = QuietConfig
    /\ QuietOrch
    /\ QuietOS

InitAddress ==
    /\ Quiet
    /\ fargs \in { [addresses |-> a, order |-> o] :
                      a \in AddressMaps, o \in UNION {KeyOrders(nets) : nets \in SUBSET Networks} }
    /\ fargs.order \in KeyOrders(DOMAIN fargs.addresses)
    /\ fres = <<>>
    /\ QuietExt

NextAddress == InstanceAddressCall /\ UNCHANGED <<orchVars, osVars, extVars>>

SpecAddress == InitAddress /\ [][NextAddress]_vars

InitTools ==
    /\ fargs \in { [fn |-> "findCompatibleTools", possibleTools |-> l, version |-> v] :
                      l \in CandidateLists,
                      v \in { <<1, 2, 3, 5>>, <<1, 2, 4, 0>>, <<2, 0, 0, 0>> } }
                 \cup { [fn |-> "setBootstrapTools", possibleTools |-> l, cfgVersion |-> c,
                         applyOk |-> a, setOk |-> o] :
                          l \in CandidateLists,
                          c \in { ZeroVersion, <<1, 2, 3, 9>>, <<1, 2, 4, 0>> },
                          a \in BOOLEAN, o \in BOOLEAN }
                 \cup { [fn |-> "EnsureNotBootstrapped", err |-> e] :
                          e \in ControllerInstancesErrors }
    /\ fres = <<>>
    /\ envcfg = [QuietConfig EXCEPT !.agentVersion =
                     IF fargs.fn = "setBootstrapTools" THEN fargs.cfgVersion ELSE @]
    /\ QuietOrch
    /\ QuietOS
    /\ QuietExt

NextTools ==
    \/ FindCompatibleToolsCall /\ UNCHANGED <<osVars, extVars>>
    \/ SetBootstrapToolsCall /\ UNCHANGED <<osVars, extVars>>
    \/ EnsureNotBootstrappedCall /\ UNCHANGED <<osVars, extVars>>

SpecTools == InitTools /\ [][NextTools]_vars

InitStatus ==
    /\ Quiet
    /\ fargs \in { [fn |-> f, status |-> st, candidate |-> c] :
                      f \in {"WorkloadMatches", "Matches"},
                      st \in StatusValues, c \in StatusValues }
                 \cup { [fn |-> "newMachineStatusDoc", doc |-> d, allowPending |-> a] :
                          d \in StatusDocs, a \in BOOLEAN }
                 \cup { [fn |-> f, doc |-> d] :
                          f \in {"newUnitAgentStatusDoc", "newUnitStatusDoc"}, d \in StatusDocs }
    /\ fres = <<>>
    /\ QuietExt

NextStatus ==
    /\ \/ WorkloadMatchesCall
       \/ MatchesCall
       \/ newMachineStatusDoc
       \/ newUnitAgentStatusDoc
       \/ newUnitStatusDoc
    /\ UNCHANGED <<orchVars, osVars, extVars>>

SpecStatus == InitStatus /\ [][NextStatus]_vars

\* an api-info command line: field arguments, flags, and what the
\* configuration store will answer
InitApiInfo ==
    /\ Quiet
    /\ fargs \in { [fn |-> "api-info", args |-> a, refresh |-> r, password |-> p,
                    answer |-> n, format |-> f] :
                      a \in FieldLists, r \in BOOLEAN, p \in BOOLEAN,
                      n \in ConnectionAnswers, f \in {"default", "yaml"} }
    /\ fres = <<>>
    /\ QuietExt

NextApiInfo ==
    \/ ApiInfoInit /\ UNCHANGED <<orchVars, osVars, extVars>>
    \/ ApiInfoRun /\ UNCHANGED <<orchVars, osVars, extVars>>

SpecApiInfo == InitApiInfo /\ [][NextApiInfo]_vars

\* an environ with a firewall mode, and nova without security groups
InitGroups ==
    /\ Quiet
    /\ fargs \in { [fn |-> "setUpGroups", mode |-> m] : m \in FirewallModes }
    /\ fres = <<>>
    /\ QuietExt

NextGroups == SetUpGroupsCall /\ UNCHANGED <<orchVars, osVars, inst, environ, ecfgMutex, eproc, aloop, fileVars>>

SpecGroups == InitGroups /\ [][NextGroups]_vars

\* a new instance on which DNSName and WaitDNSName are called one after another
InitDNS ==
    /\ Quiet
    /\ fargs = [fn |-> "DNSName"]
    /\ fres = <<>>
    /\ QuietExt

NextDNS ==
    \/ DNSNameCall /\ UNCHANGED <<orchVars, osVars, secGroups, environ, ecfgMutex, eproc, aloop, fileVars>>
    \/ WaitDNSNameCall /\ UNCHANGED <<orchVars, osVars, secGroups, environ, ecfgMutex, eproc, aloop, fileVars>>

SpecDNS == InitDNS /\ [][NextDNS]_vars

\* an environ opened with configuration 0 and callers that share it
InitEnviron ==
    /\ Quiet
    /\ QuietFn
    /\ QuietExt

NextEnviron ==
    \E p \in Procs :
        \/ EnvironCall(p)
        \/ EnvironLock(p)
        \/ EnvironAccessBegins(p)
        \/ EnvironAccessEnds(p)
        \/ EnvironUnlock(p)
        \/ EnvironReturn(p)

SpecEnviron ==
    InitEnviron /\ [][NextEnviron /\ UNCHANGED <<orchVars, osVars, fnVars, secGroups, inst, aloop, fileVars>>]_vars

\* a function of the provider that holds a retry loop is about to be called
InitAttempts ==
    /\ Quiet
    /\ QuietFn
    /\ QuietExt

NextAttempts ==
    \/ AttemptStart
    \/ AttemptNextSlot
    \/ AttemptBody
    \/ AttemptAfter

attemptVars == <<orchVars, osVars, fnVars, secGroups, inst, environ, ecfgMutex, eproc, fileVars>>

\* the goroutine that runs the loop is scheduled as long as it can take a step
SpecAttempts ==
    /\ InitAttempts
    /\ [][NextAttempts /\ UNCHANGED attemptVars]_vars
    /\ WF_vars(NextAttempts /\ UNCHANGED attemptVars)

\* the data directory holds at most one of the two files, with a name in it
InitFiles ==
    /\ Quiet
    /\ QuietFn
    /\ secGroups = NoGroups
    /\ inst = NewInstance
    /\ environ = ConfiguredEnviron(0)
    /\ ecfgMutex = ""
    /\ eproc = [p \in Procs |-> IdleCaller]
    /\ aloop = NoLoop
    /\ files \in { NoFiles,
                   [NoFiles EXCEPT !.model = <<FileContent(<<"a">>)>>],
                   [NoFiles EXCEPT !.controller = <<FileContent(<<"b">>)>>] }
    /\ flock = ""
    /\ fproc = [p \in Procs |-> IdleFileCaller]
    /\ fhist = [calls |-> 0, lastWrite |-> <<>>, unset |-> NoCurrent(files)]

fileFrame == <<orchVars, osVars, fnVars, secGroups, inst, environ, ecfgMutex, eproc, aloop>>

\* the calls are made one after another
NextFilesInTurn ==
    \E p \in Procs :
        /\ \A q \in Procs \ {p} : fproc[q].pc = "idle"
        /\ FileStep(p)

SpecFilesInTurn == InitFiles /\ [][NextFilesInTurn /\ UNCHANGED fileFrame]_vars

\* the calls are made by concurrent processes
NextFiles == \E p \in Procs : FileStep(p)

SpecFiles == InitFiles /\ [][NextFiles /\ UNCHANGED fileFrame]_vars

(***************************************************************************)
(* Properties of the bootstrap orchestrator                                *)
(***************************************************************************)

CallsOf(op) == {i \in 1..Len(ocalls) : ocalls[i].op = op}

ProviderCalls == CallsOf("SetConfig") \cup CallsOf("Bootstrap") \cup CallsOf("Finalize")

IncompleteConfig(cfg) ==
    \/ cfg.adminSecret = ""
    \/ cfg.authorizedKeys = <<>>
    \/ cfg.caCert = ""
    \/ cfg.caKey = ""

\* C1: with a configuration that lacks admin-secret, authorized-keys, the CA
\* certificate or the CA private key, Bootstrap returns an error without any
\* provider call (no SetConfig, no environ.Bootstrap, no Finalize), and the
\* error for an empty admin-secret contains "no admin-secret".
C1_IncompleteConfigFailsBeforeProvider ==
    (opc # "idle" /\ IncompleteConfig(envcfg)) =>
        /\ opc = "done"
        /\ oerr # Nil
        /\ ProviderCalls = {}
        /\ ocalls = <<>>
        /\ (envcfg.adminSecret = "" => HasPart(oerr, <<"no admin-secret">>))

C1_Witness ==
    /\ opc = "done"
    /\ envcfg.adminSecret = "sekrit"
    /\ envcfg.authorizedKeys # <<>>
    /\ envcfg.caCert # ""
    /\ envcfg.caKey = ""
    /\ oerr = <<"model configuration has", "no ca-private-key">>

RequestedAgentVersion ==
    IF oargs.AgentVersion = <<>> THEN VersionCurrent ELSE oargs.AgentVersion

\* C3: a run of Bootstrap is linear: a failing call is the last call made and
\* Bootstrap has then returned its error; environ.Bootstrap is called at most
\* once and only after a successful SetConfig pinned agent-version to
\* args.AgentVersion when set and to version.Current otherwise; Finalize is
\* called at most once and only after environ.Bootstrap, the tools selection
\* and the tools build (when there was one) succeeded.
C3_LinearRun ==
    /\ \A i \in 1..(Len(ocalls) - 1) : ocalls[i].err = Nil
    /\ (ocalls # <<>> /\ ocalls[Len(ocalls)].err # Nil) => (opc = "done" /\ oerr # Nil)
    /\ (opc = "done" /\ oerr = Nil) =>
           (ocalls # <<>> /\ ocalls[Len(ocalls)].op = "Finalize")
    /\ Cardinality(CallsOf("Bootstrap")) <= 1
    /\ Cardinality(CallsOf("Finalize")) <= 1
    /\ (opc = "start") => envcfg.agentVersion = RequestedAgentVersion
    /\ \A i \in CallsOf("Bootstrap") :
           \E j \in CallsOf("SetConfig") :
               j < i /\ ocalls[j].err = Nil /\ ocalls[j].arg = RequestedAgentVersion
    /\ \A i \in CallsOf("Finalize") :
           /\ \E j \in CallsOf("Bootstrap") : j < i /\ ocalls[j].err = Nil
           /\ \E j \in CallsOf("Match") : j < i /\ ocalls[j].err = Nil
           /\ \A j \in CallsOf("BuildToolsTarball") : j < i /\ ocalls[j].err = Nil
           /\ \E k \in 1..Len(otools) :
                  /\ otools[k].version = ocalls[i].arg.Tools.version
                  /\ otools[k].arch = oresult.Arch
                  /\ otools[k].series = oresult.Series
           /\ i = Len(ocalls)
           /\ opc = "done"

C3_Witness ==
    /\ opc = "done"
    /\ oerr = Nil
    /\ oargs.AgentVersion = <<1, 2, 5, 0>>
    /\ CallsOf("BuildToolsTarball") # {}
    /\ CallsOf("Finalize") # {}

C5_NoToolsMessage ==
    /\ \A i \in CallsOf("findAvailableTools") :
           /\ ocalls[i].arg.kind = "notfound" =>
                  /\ opc = "done"
                  /\ oerr = noToolsMessage
                  /\ CallsOf("Bootstrap") = {}
                  /\ CallsOf("Finalize") = {}
           /\ ocalls[i].arg.kind = "error" =>
                  /\ opc = "done"
                  /\ oerr = ocalls[i].err
                  /\ oerr # noToolsMessage
                  /\ CallsOf("Bootstrap") = {}
                  /\ CallsOf("Finalize") = {}
    /\ (opc = "done" /\ HasPart(oerr, <<noToolsMessage[1]>>)) =>
           /\ ocalls # <<>>
           /\ ocalls[Len(ocalls)].op = "findAvailableTools"
           /\ ocalls[Len(ocalls)].arg.kind = "notfound"

C5_Witness ==
    /\ opc = "done"
    /\ oerr = noToolsMessage
    /\ ocalls[Len(ocalls)].op = "findAvailableTools"

\* the URL the selected tools had in availableTools
SelectedURLBeforeBuild ==
    LET k == CHOOSE k \in 1..Len(otools) :
                 /\ otools[k].version = oselected.version
                 /\ otools[k].arch = oselected.arch
                 /\ otools[k].series = oselected.series
    IN  otools[k].url

\* C6: selected tools without a URL make Bootstrap build a tools bundle
\* exactly once; a failed build returns an error annotated "cannot upload
\* bootstrap tools" and Finalize is not called; after a successful build the
\* tools handed to Finalize carry a file:// URL, the built size and the built
\* SHA256; Finalize never receives tools with an empty URL.
C6_ToolsBuiltOnceOrFail ==
    /\ Cardinality(CallsOf("BuildToolsTarball")) <= 1
    /\ (opc \in {"instancecfg", "finalize"} \/ CallsOf("NewBootstrapInstanceConfig") # {}) =>
           (SelectedURLBeforeBuild = <<>> <=> Cardinality(CallsOf("BuildToolsTarball")) = 1)
    /\ \A i \in CallsOf("BuildToolsTarball") :
           /\ ocalls[i].err # Nil =>
                  /\ opc = "done"
                  /\ oerr = <<"cannot upload bootstrap tools">> \o ocalls[i].err
                  /\ CallsOf("Finalize") = {}
           /\ \A j \in CallsOf("Finalize") :
                  /\ i < j
                  /\ ocalls[j].arg.Tools.url =
                        <<"file://", ocalls[i].arg.Dir, ocalls[i].arg.StorageName>>
                  /\ ocalls[j].arg.Tools.size = ocalls[i].arg.Size
                  /\ ocalls[j].arg.Tools.sha256 = ocalls[i].arg.Sha256Hash
    /\ \A j \in CallsOf("Finalize") : ocalls[j].arg.Tools.url # <<>>

C6_Witness ==
    \E j \in CallsOf("Finalize") :
        /\ ocalls[j].arg.Tools.url[1] = "file://"
        /\ ocalls[j].arg.Tools.size = 8192
        /\ CallsOf("BuildToolsTarball") # {}

(***************************************************************************)
(* Properties of the OpenStack adapter                                     *)
(***************************************************************************)

CallsNamed(p, name) == SelectSeq(proc[p].calls, LAMBDA c : c.op = name)

Returned(p, op) == proc[p].pc = "done" /\ proc[p].op = op

AlreadyBootstrapped == <<"environment is already bootstrapped">>

\* the step in which a Bootstrap ends its check for an old bootstrap state
\* while the state file of an earlier Bootstrap is in the storage
ChecksSavedState(p) ==
    /\ proc[p].pc = "check"
    /\ proc'[p].pc # "check"
    /\ stateFile # <<>>

\* C2 (as stated): a Bootstrap that finds the saved state of an earlier
\* Bootstrap fails with "already bootstrapped" and never runs a server.
C2_SecondBootstrapAlreadyBootstrapped ==
    [][\A p \in Procs :
          ChecksSavedState(p) =>
              /\ proc'[p].pc = "done"
              /\ proc'[p].err = AlreadyBootstrapped
              /\ \A i \in 1..Len(proc'[p].calls) : proc'[p].calls[i].op # "RunServer"]_vars

\* C2: a Bootstrap that finds the saved state of an earlier Bootstrap fails
\* and never runs a server; its error is "already bootstrapped", or "cannot
\* query old bootstrap state" when reading the state failed.
C2_SecondBootstrapFails ==
    [][\A p \in Procs :
          ChecksSavedState(p) =>
              /\ proc'[p].pc = "done"
              /\ \/ proc'[p].err = AlreadyBootstrapped
                 \/ /\ proc'[p].err = Wrap("cannot query old bootstrap state", IOErr)
                    /\ proc'[p].calls[Len(proc'[p].calls)].answer = "error"
              /\ \A i \in 1..Len(proc'[p].calls) : proc'[p].calls[i].op # "RunServer"]_vars

C2_Witness ==
    \E p, q \in Procs :
        /\ p # q
        /\ Returned(q, "Bootstrap") /\ proc[q].err = Nil
        /\ stateFile = <<proc[q].server>>
        /\ Returned(p, "Bootstrap") /\ proc[p].err = AlreadyBootstrapped
        /\ CallsNamed(p, "RunServer") = <<>>

\* C7: a startInstance that fails after RunServer has created the server
\* has called DeleteServer for that server before it returns.
C7_FailedStartTerminatesServer ==
    \A p \in Procs :
        ( /\ proc[p].pc = "done"
          /\ proc[p].op \in {"Bootstrap", "StartInstance"}
          /\ proc[p].err # Nil
          /\ \E i \in 1..Len(proc[p].calls) :
                proc[p].calls[i].op = "RunServer" /\ proc[p].calls[i].answer = "ok" )
        => \E i \in 1..Len(proc[p].calls) :
              proc[p].calls[i].op = "DeleteServer" /\ proc[p].calls[i].arg = proc[p].server

\* an id resolved: a request of Instances has seen its server, and the
\* server is ACTIVE or BUILD
Resolved(p, id) ==
    \E i \in 1..Len(proc[p].calls) :
        /\ proc[p].calls[i].answer = "ok"
        /\ id \in proc[p].calls[i].arg
        /\ servers[id] \in {"ACTIVE", "BUILD"}

\* what C8 says of the result of Instances(ids)
InstancesContract(p) ==
    LET ids == proc[p].ids
        all == \A i \in 1..Len(ids) : Resolved(p, ids[i])
        some == \E i \in 1..Len(ids) : Resolved(p, ids[i])
    IN  /\ proc[p].err = Nil <=> all
        /\ proc[p].err = ErrPartialInstances <=> (some /\ ~all)
        /\ proc[p].err = ErrNoInstances <=> ~some
        /\ proc[p].err \in {Nil, ErrPartialInstances, ErrNoInstances}
        /\ IF some
           THEN /\ Len(proc[p].ret) = Len(ids)
                /\ \A i \in 1..Len(ids) :
                      proc[p].ret[i] = IF Resolved(p, ids[i]) THEN ids[i] ELSE 0
           ELSE proc[p].ret = <<>>

\* C8 (as stated): the contract holds for every list of ids.
C8_InstancesContractAllIds ==
    \A p \in Procs : Returned(p, "Instances") => InstancesContract(p)

\* C8: for a non-empty list of ids Instances returns one entry per id, in
\* order, the instance when the id resolved and nil otherwise, with a nil
\* error iff all resolved, ErrPartialInstances iff some but not all, and
\* ErrNoInstances with a nil slice iff none; for an empty list it returns
\* ErrNoInstances and a nil slice.
C8_InstancesContractNonEmpty ==
    \A p \in Procs :
        Returned(p, "Instances") =>
            IF proc[p].ids # <<>> THEN InstancesContract(p)
            ELSE proc[p].err = ErrNoInstances /\ proc[p].ret = <<>>

C8_Witness ==
    \E p \in Procs :
        /\ Returned(p, "Instances")
        /\ Len(proc[p].ids) = 2
        /\ proc[p].err = ErrPartialInstances
        /\ proc[p].ret = <<0, proc[p].ids[2]>>
        /\ Len(proc[p].calls) = MaxShortAttempts

\* what C9 says of the deletes of a call that terminates the instances ids
\* and returns err
TerminateContract(deletes, ids, err) ==
    LET failed == {i \in 1..Len(deletes) : deletes[i].answer = "error"}
    IN  /\ Len(deletes) = Len(ids)
        /\ \A i \in 1..Len(ids) : deletes[i].arg = ids[i]
        /\ IF failed = {} THEN err = Nil
           ELSE err = DeleteErr(ids[CHOOSE i \in failed : \A j \in failed : i <= j])

\* C9 (as stated): StopInstances issues one delete for every instance it is
\* given, and returns the first error that is not "not found", or nil.
C9_StopInstancesDeletesEveryId ==
    \A p \in Procs :
        Returned(p, "StopInstances") =>
            TerminateContract(CallsNamed(p, "DeleteServer"), proc[p].ids, proc[p].err)

\* C9: given instances of this provider, StopInstances issues one delete
\* per id in order whatever the earlier deletes answered, takes "not found"
\* for success, and returns the first other error in id order, or nil;
\* given an instance of another type it deletes nothing and returns
\* "Incompatible environs.Instance supplied".
C9_StopInstancesDeletesOwnIds ==
    \A p \in Procs :
        Returned(p, "StopInstances") =>
            IF \E i \in 1..Len(proc[p].ids) : proc[p].ids[i] = Foreign
            THEN /\ CallsNamed(p, "DeleteServer") = <<>>
                 /\ proc[p].err = <<"Incompatible environs.Instance supplied">>
            ELSE /\ TerminateContract(CallsNamed(p, "DeleteServer"), proc[p].ids, proc[p].err)
                 /\ \A i \in 1..Len(proc[p].ids) :
                       proc[p].calls[i].answer # "error" => ~Exists(servers, proc[p].ids[i])

C9_Witness ==
    \E p \in Procs :
        /\ Returned(p, "StopInstances")
        /\ Len(proc[p].ids) = 2
        /\ Len(proc[p].calls) = 2
        /\ proc[p].calls[1].answer = "error"
        /\ proc[p].calls[2].answer = "notfound"
        /\ proc[p].err = DeleteErr(proc[p].ids[1])

\* C10: Destroy issues one delete for each distinct id of AllInstances()
\* and ensureInsts and for no other, deletes the storage only after every
\* delete has answered without error, and otherwise returns the error of
\* the listing or of the termination and leaves the storage as it was.
C10_DestroyTerminatesThenDeletesStorage ==
    [][\A p \in Procs :
          (proc[p].pc = "idle" /\ proc'[p].op = "Destroy") =>
              LET calls == proc'[p].calls
                  deletes == SelectSeq(calls, LAMBDA c : c.op = "DeleteServer")
                  wipes == {i \in 1..Len(calls) : calls[i].op = "deleteAll"}
                  listed == {id \in calls[1].arg : servers[id] \in {"ACTIVE", "BUILD"}}
                  kept == stateFile' = stateFile /\ bucket' = bucket
              IN  /\ calls[1].op = "ListServersDetail"
                  /\ IF calls[1].answer = "error"
                     THEN /\ deletes = <<>> /\ wipes = {} /\ kept
                          /\ proc'[p].err = Wrap("cannot get instances", ListErr)
                     ELSE /\ {deletes[i].arg : i \in 1..Len(deletes)}
                                = listed \cup Range(proc'[p].ids)
                          /\ \A i, j \in 1..Len(deletes) :
                                deletes[i].arg = deletes[j].arg => i = j
                          /\ IF \E i \in 1..Len(deletes) : deletes[i].answer = "error"
                             THEN /\ wipes = {} /\ kept
                                  /\ proc'[p].err =
                                        DeleteErr(deletes[CHOOSE i \in 1..Len(deletes) :
                                            /\ deletes[i].answer = "error"
                                            /\ \A j \in 1..(i - 1) :
                                                  deletes[j].answer # "error"].arg)
                             ELSE /\ wipes = {Len(calls)}
                                  /\ IF calls[Len(calls)].answer = "ok"
                                     THEN /\ stateFile' = <<>> /\ bucket' = {}
                                          /\ proc'[p].err = Nil
                                     ELSE kept /\ proc'[p].err = StorageErr]_vars

C10_Witness ==
    \E p \in Procs :
        /\ Returned(p, "Destroy")
        /\ proc[p].ids = <<2, 1>>
        /\ proc[p].calls[1].arg = {1}
        /\ [i \in 1..Len(proc[p].calls) |-> proc[p].calls[i].op]
              = <<"ListServersDetail", "DeleteServer", "DeleteServer", "deleteAll">>
        /\ proc[p].calls[2].arg = 1
        /\ proc[p].calls[3].arg = 2
        /\ proc[p].calls[4].answer = "ok"
        /\ proc[p].err = Nil
        /\ stateFile = <<>>
        /\ bucket = {}


(***************************************************************************)
(* Properties of instanceAddress                                           *)
(***************************************************************************)

HasIPv4(addresses, net) ==
    net \in DOMAIN addresses /\ \E i \in 1..Len(addresses[net]) : addresses[net][i].Version = 4

\* the address C11 expects of the network net, which has an IPv4 address
ExpectedOf(addresses, net) ==
    LET ips == addresses[net]
        first == CHOOSE i \in 1..Len(ips) :
                    ips[i].Version = 4 /\ \A j \in 1..(i - 1) : ips[j].Version # 4
    IN  IF net # "public" /\ Len(ips) >= 2 /\ ips[2].Version = 4
        THEN ips[2].Address ELSE ips[first].Address

\* C11: instanceAddress returns the first IPv4 address of the "public"
\* network when it has one; otherwise the second entry of a non-public
\* network when that is IPv4, else that network's first IPv4 address; and it
\* fails with ErrNoDNSName exactly when no network has an IPv4 address.
C11_InstanceAddress ==
    fres # <<>> =>
        LET a == fargs.addresses
            r == fres[1]
            others == {n \in DOMAIN a : n # "public" /\ HasIPv4(a, n)}
        IN  /\ HasIPv4(a, "public") =>
                  r.err = Nil /\ r.addr = ExpectedOf(a, "public")
            /\ (~HasIPv4(a, "public") /\ others # {}) =>
                  r.err = Nil /\ \E n \in others : r.addr = ExpectedOf(a, n)
            /\ r.err = ErrNoDNSName <=> \A n \in DOMAIN a : ~HasIPv4(a, n)
            /\ r.err \in {Nil, ErrNoDNSName}
            /\ r.err # Nil => r.addr = ""
            /\ a = [n \in {"public"} |-> <<IPAddress("public", 1, 4)>>] => r.addr = "2.2.2.2"
            /\ a = [n \in {"private"} |-> <<IPAddress("private", 1, 4)>>] => r.addr = "10.0.0.5"
            /\ DOMAIN a = {} => r.err = ErrNoDNSName

C11_Witness ==
    /\ fres # <<>>
    /\ DOMAIN fargs.addresses = {"public", "private"}
    /\ fargs.addresses["public"] = <<IPAddress("public", 1, 6)>>
    /\ fargs.addresses["private"] = <<IPAddress("private", 1, 6), IPAddress("private", 2, 4)>>
    /\ fres[1] = [addr |-> "10.0.0.6", err |-> Nil]

(***************************************************************************)
(* Properties of the tools selection                                       *)
(***************************************************************************)

\* equal major, minor and patch
SameRelease(v, w) == v[1] = w[1] /\ v[2] = w[2] /\ v[3] = w[3]

VersionsOf(list) == {list[i].version : i \in 1..Len(list)}

\* v is the newest of the versions vs
IsNewestOf(v, vs) == v \in vs /\ \A w \in vs : ~VersionLess(v, w)

ExampleTools ==
    << MkTools(<<1, 2, 3, 1>>, "trusty", "amd64", <<>>),
       MkTools(<<1, 2, 3, 9>>, "trusty", "amd64", <<>>),
       MkTools(<<1, 2, 4, 0>>, "trusty", "amd64", <<>>) >>

FoundCompatible == fres # <<>> /\ fargs.fn = "findCompatibleTools"

\* C12 (as stated): findCompatibleTools returns every entry of the release
\* of v and no other; for the example that is {1.2.3.1, 1.2.3.9}, newest
\* 1.2.3.9.
C12_AllCompatibleReturned ==
    FoundCompatible =>
        /\ VersionsOf(fres[1].list)
              = {w \in VersionsOf(fargs.possibleTools) : SameRelease(w, fargs.version)}
        /\ (fargs.possibleTools = ExampleTools /\ fargs.version = <<1, 2, 3, 5>>) =>
              /\ VersionsOf(fres[1].list) = { <<1, 2, 3, 1>>, <<1, 2, 3, 9>> }
              /\ fres[1].version = <<1, 2, 3, 9>>

\* C12: findCompatibleTools returns only entries of the release of v
\* (major, minor and patch equal, build ignored): the newest version among
\* them and the entries that carry that version, in the order of the list;
\* for the example the list is {1.2.3.9} and the newest version 1.2.3.9.
C12_NewestCompatibleReturned ==
    FoundCompatible =>
        LET compatible == {w \in VersionsOf(fargs.possibleTools) : SameRelease(w, fargs.version)}
            r == fres[1]
        IN  /\ \A i \in 1..Len(r.list) : SameRelease(r.list[i].version, fargs.version)
            /\ IF compatible = {} THEN r.list = <<>> /\ r.version = ZeroVersion
               ELSE /\ IsNewestOf(r.version, compatible)
                    /\ r.list = SelectSeq(fargs.possibleTools, LAMBDA t : t.version = r.version)
            /\ (fargs.possibleTools = ExampleTools /\ fargs.version = <<1, 2, 3, 5>>) =>
                  /\ VersionsOf(r.list) = { <<1, 2, 3, 9>> }
                  /\ r.version = <<1, 2, 3, 9>>

C12_Witness ==
    /\ FoundCompatible
    /\ fargs.possibleTools = ExampleTools
    /\ fargs.version = <<1, 2, 3, 5>>
    /\ fres[1].version = <<1, 2, 3, 9>>
    /\ Len(fres[1].list) = 1

SetTools == fres # <<>> /\ fargs.fn = "setBootstrapTools"

\* what C13 says of the tool setBootstrapTools returns for a non-empty list
SelectedToolContract ==
    LET vs == VersionsOf(fargs.possibleTools)
        compatible == {w \in vs : SameRelease(w, VersionCurrent)}
        r == fres[1]
    IN  /\ r.tools \in Range(fargs.possibleTools)
        /\ IF compatible # {} THEN IsNewestOf(r.tools.version, compatible)
           ELSE IsNewestOf(r.tools.version, vs)

\* on an empty list: an error, and nothing changed
EmptyListContract ==
    /\ fres[1].err = <<"no bootstrap tools available">>
    /\ fres[1].tools = NoTools
    /\ envcfg.agentVersion = fargs.cfgVersion
    /\ ocalls = <<>>

\* C13 (as stated): for every non-empty list setBootstrapTools returns a
\* tool, of the newest compatible version when there is a compatible one and
\* of the newest version otherwise; on an empty list it returns an error and
\* changes nothing.
C13_AlwaysReturnsTool ==
    SetTools =>
        IF fargs.possibleTools # <<>>
        THEN fres[1].err = Nil /\ SelectedToolContract
        ELSE EmptyListContract

\* C13: for a non-empty list setBootstrapTools either fails with "failed to
\* update model configuration" and returns no tool, which happens only when
\* the configuration had to be updated and cfg.Apply or SetConfig failed, or
\* returns a tool of the newest compatible version when a candidate is
\* compatible with version.Current and of the newest version otherwise; on
\* an empty list it returns an error and changes nothing.
C13_ReturnsCompatibleToolOrFails ==
    SetTools =>
        IF fargs.possibleTools = <<>> THEN EmptyListContract
        ELSE IF fres[1].err = Nil THEN SelectedToolContract
        ELSE /\ HasPart(fres[1].err, <<"failed to update model configuration">>)
             /\ fres[1].tools = NoTools
             /\ ~IsNewestOf(fargs.cfgVersion, VersionsOf(fargs.possibleTools))
             /\ ~(fargs.applyOk /\ fargs.setOk)

C13_Witness ==
    /\ SetTools
    /\ fargs.possibleTools = ExampleTools
    /\ fres[1].err = Nil
    /\ fres[1].tools.version = <<1, 2, 3, 9>>

\* C14: after a successful setBootstrapTools the configuration's
\* agent-version is the newest version of the list, whatever tool was
\* returned; SetConfig is called only when the configuration declared
\* another version.
C14_AgentVersionIsNewest ==
    (SetTools /\ fres[1].err = Nil) =>
        /\ IsNewestOf(envcfg.agentVersion, VersionsOf(fargs.possibleTools))
        /\ IsNewestOf(fargs.cfgVersion, VersionsOf(fargs.possibleTools)) =>
              \A i \in 1..Len(ocalls) : ocalls[i].op \notin {"SetConfig", "Apply"}
        /\ ~IsNewestOf(fargs.cfgVersion, VersionsOf(fargs.possibleTools)) =>
              \E i \in 1..Len(ocalls) :
                  /\ ocalls[i].op = "SetConfig"
                  /\ ocalls[i].arg = envcfg.agentVersion
                  /\ \A j \in 1..Len(ocalls) : ocalls[j].op = "SetConfig" => j = i

C14_Witness ==
    /\ SetTools
    /\ fres[1].err = Nil
    /\ fargs.possibleTools = ExampleTools
    /\ fargs.cfgVersion = ZeroVersion
    /\ fres[1].tools.version = <<1, 2, 3, 9>>
    /\ envcfg.agentVersion = <<1, 2, 4, 0>>

(***************************************************************************)
(* Properties of EnsureNotBootstrapped                                     *)
(***************************************************************************)

\* C15: EnsureNotBootstrapped returns ErrAlreadyBootstrapped exactly when
\* the query of the controller instances gave no error, nil exactly when the
\* cause of the error is ErrNoInstances or ErrNotBootstrapped, and the error
\* itself, annotations included, in every other case.
C15_EnsureNotBootstrapped ==
    (fres # <<>> /\ fargs.fn = "EnsureNotBootstrapped") =>
        LET err == fargs.err
            r == fres[1]
            benign == /\ err # Nil
                      /\ err[Len(err)] \in {"no instances found", "model is not bootstrapped"}
        IN  /\ r = ErrAlreadyBootstrapped <=> err = Nil
            /\ r = Nil <=> benign
            /\ (err # Nil /\ ~benign) => r = err

C15_Witness ==
    /\ fres # <<>>
    /\ fargs.fn = "EnsureNotBootstrapped"
    /\ fargs.err = Wrap("listing controllers", ErrNoInstances)
    /\ fres[1] = Nil

(***************************************************************************)
(* Properties of the constraints validation in Bootstrap                   *)
(***************************************************************************)

\* a constraints value the validator rejects: instance-type with mem or cores
Conflicting(cons) == cons.itype # "" /\ (cons.mem # "" \/ cons.cores # "")

MergedByDimension(env, boot) == [d \in ConsDims |-> IF boot[d] # "" THEN boot[d] ELSE env[d]]

\* C16: when the validation of the environment constraints, of the bootstrap
\* constraints or their merge reports an error, Bootstrap returns that error
\* and resolves no tools and calls no provider; unsupported dimensions alone
\* stop nothing, and the constraints reach the provider as they were given.
C16_ConstraintErrorsAbort ==
    LET env == oargs.EnvironConstraints
        boot == oargs.BootstrapConstraints
        checks == CallsOf("validateConstraints") \cup CallsOf("Merge")
        later == CallsOf("findAvailableTools") \cup ProviderCalls
    IN  /\ \A i \in checks :
              ocalls[i].err # Nil =>
                  /\ i = Len(ocalls)
                  /\ opc = "done"
                  /\ oerr = ocalls[i].err
                  /\ oerr \in {AmbiguousErr, ValidatorErr}
                  /\ later = {}
        /\ \A i \in CallsOf("validateConstraints") :
              /\ (Conflicting(env) \/ Conflicting(boot)) => ocalls[i].err # Nil
              /\ (~Conflicting(env) /\ ~Conflicting(boot) /\ ocalls[i].err # Nil)
                    => ocalls[i].err = ValidatorErr
        /\ \A i \in CallsOf("Merge") :
              /\ Conflicting(MergedByDimension(env, boot)) => ocalls[i].err # Nil
              /\ (~Conflicting(MergedByDimension(env, boot)) /\ ocalls[i].err # Nil)
                    => ocalls[i].err = ValidatorErr
        /\ later # {} =>
              /\ ~Conflicting(env) /\ ~Conflicting(boot)
              /\ ~Conflicting(MergedByDimension(env, boot))
        /\ \A i \in CallsOf("Bootstrap") :
              /\ ocalls[i].arg.EnvironConstraints = env
              /\ ocalls[i].arg.BootstrapConstraints = boot

C16_Witness ==
    /\ opc = "done"
    /\ oargs.EnvironConstraints = [NoCons EXCEPT !.itype = "foo"]
    /\ oargs.BootstrapConstraints = [NoCons EXCEPT !.mem = "8G"]
    /\ Len(ocalls) > 0
    /\ ocalls[Len(ocalls)] = Call("Merge", <<>>, AmbiguousErr)
    /\ oerr = AmbiguousErr

(***************************************************************************)
(* Properties of the status values and documents                           *)
(***************************************************************************)

\* the legacy workload values and what replaced them
LegacyWorkload ==
    [ down |-> "terminated", stopped |-> "terminated",
      installing |-> "maintenance", started |-> "active" ]

Matched(stored, candidate) ==
    fres # <<>> /\ fargs = [fn |-> "WorkloadMatches", status |-> stored, candidate |-> candidate]

\* C17: stored.WorkloadMatches(candidate) is true iff the candidate equals
\* stored, or the candidate is a legacy value whose replacement equals
\* stored; stored is never normalised.
C17_WorkloadMatches ==
    (fres # <<>> /\ fargs.fn = "WorkloadMatches") =>
        /\ fres[1] <=>
              \/ fargs.candidate = fargs.status
              \/ /\ fargs.candidate \in DOMAIN LegacyWorkload
                 /\ LegacyWorkload[fargs.candidate] = fargs.status
        /\ Matched("active", "started") => fres[1]
        /\ Matched("active", "active") => fres[1]
        /\ Matched("started", "active") => ~fres[1]

C17_Witness == Matched("active", "started") /\ fres[1] = TRUE

CreatedDoc(fn) == fres # <<>> /\ fargs.fn = fn

\* C18: in the machine, unit agent and unit workload domains a status
\* document with a non-nil data payload is accepted only when its status is
\* "error".
C18_DataOnlyWithError ==
    \A fn \in {"newMachineStatusDoc", "newUnitAgentStatusDoc", "newUnitStatusDoc"} :
        (CreatedDoc(fn) /\ fargs.doc.StatusData # "nil" /\ fres[1].err = Nil)
            => fargs.doc.Status = "error"

\* C19: the machine set-validation accepts exactly: started or stopped with
\* nil data; pending with allowPending and nil data; error with non-empty
\* info, with or without data.
C19_MachineValidateSet ==
    CreatedDoc("newMachineStatusDoc") =>
        LET d == fargs.doc
            accepted ==
                \/ d.Status \in {"started", "stopped"} /\ d.StatusData = "nil"
                \/ d.Status = "pending" /\ fargs.allowPending /\ d.StatusData = "nil"
                \/ d.Status = "error" /\ d.StatusInfo # ""
        IN  /\ fres[1].err = Nil <=> accepted
            /\ accepted => fres[1].doc = <<d>>
            /\ ~accepted => fres[1].doc = <<>>

C19_Witness ==
    /\ CreatedDoc("newMachineStatusDoc")
    /\ fargs.doc = [Status |-> "pending", StatusInfo |-> "", StatusData |-> "nil"]
    /\ ~fargs.allowPending
    /\ fres[1].err = <<"cannot set status", "pending">>

(***************************************************************************)
(* Properties of the api-info command                                      *)
(***************************************************************************)

InitDone == fargs.fn = "api-info" /\ Len(fres) >= 1

RunDone == fargs.fn = "api-info" /\ Len(fres) = 2

FieldsOf == Range(fargs.args)

\* the fields the command will output
SelectedFields(c) ==
    { f \in FieldNames :
        CASE f = "user" -> c.user
          [] f = "password" -> c.password
          [] f = "environ-uuid" -> c.modelUUID
          [] f = "server-uuid" -> c.srvuuid
          [] f = "controllers" -> c.servers
          [] f = "ca-cert" -> c.cacert }

DefaultFields == {"user", "environ-uuid", "server-uuid", "controllers", "ca-cert"}

\* the password is in the result, or in what was written
PasswordShown ==
    /\ RunDone
    /\ \/ fres[2].result.Password = StoredCredentials.Password
       \/ \E k \in 1..Len(fres[2].out) :
              \E j \in 1..Len(fres[2].out[k].lines) :
                  fres[2].out[k].lines[j] = StoredCredentials.Password

PasswordOnlyOnRequest ==
    PasswordShown => ("password" \in FieldsOf \/ fargs.password)

UnknownFieldFails ==
    (InitDone /\ FieldsOf \ FieldNames # {}) =>
        /\ fres[1].err # Nil
        /\ fres[1].err[1] = "unknown fields"
        /\ Range(Tail(fres[1].err)) = FieldsOf \ FieldNames
        /\ ~RunDone

\* C20 as claimed: the result contains the stored password only if
\* "password" was a field argument or --password was set; with no field
\* arguments the fields are user, environ-uuid, server-uuid, controllers and
\* ca-cert and the password is left empty; an unknown field name makes Init
\* fail and nothing is printed.
C20_NoFieldsLeavesPasswordEmpty ==
    /\ PasswordOnlyOnRequest
    /\ (InitDone /\ fargs.args = <<>>) =>
           /\ fres[1].err = Nil
           /\ SelectedFields(fres[1].c) = DefaultFields
           /\ RunDone => fres[2].result.Password = ""
    /\ UnknownFieldFails

\* C20 amended: the result contains the stored password only if "password"
\* was a field argument or --password was set; with no field arguments the
\* fields are user, environ-uuid, server-uuid, controllers and ca-cert, and
\* the password as well exactly when --password was set, so that the password
\* is left empty without the flag; an unknown field name makes Init fail and
\* nothing is printed.
C20_PasswordOnlyOnRequest ==
    /\ PasswordOnlyOnRequest
    /\ (InitDone /\ fargs.args = <<>>) =>
           /\ fres[1].err = Nil
           /\ SelectedFields(fres[1].c) =
                  DefaultFields \cup (IF fargs.password THEN {"password"} ELSE {})
           /\ (RunDone /\ ~fargs.password) => fres[2].result.Password = ""
           /\ (RunDone /\ fargs.password /\ fres[2].err = Nil) =>
                  fres[2].result.Password = StoredCredentials.Password
    /\ UnknownFieldFails

\* api-info without field arguments and without --password has printed the
\* default fields
C20_Witness ==
    /\ RunDone
    /\ fargs.args = <<>>
    /\ ~fargs.password
    /\ fres[2].err = Nil
    /\ fres[2].result.Password = ""
    /\ fres[2].result.User = StoredCredentials.User
    /\ Len(fres[2].out) = 5

(***************************************************************************)
(* Properties of the retry loops and of the security groups                *)
(***************************************************************************)

RunServerCalls(p) == CallsNamed(p, "RunServer")

\* the servers the compute service has created so far
CreatedServers == {id \in ServerIds : servers[id] # "none"}

\* C21: in startInstance RunServer is retried only after a "not found" answer
\* and at most MaxShortAttempts times: the loop stops at the first success or
\* at the first other error, at most one server is created per call, and a
\* loop that ends on a failure, "not found" on the last slot included, makes
\* the call fail with "cannot run instance" without any further request.
C21_RunServerRetriedOnNotFound ==
    /\ \A p \in Procs :
          LET rs == RunServerCalls(p)
              n == Len(rs)
          IN  /\ n <= MaxShortAttempts
              /\ \A i \in 1..(n - 1) : rs[i].answer = "notfound"
              /\ Cardinality({i \in 1..n : rs[i].answer = "ok"}) <= 1
              /\ (n > 0 /\ rs[n].answer = "notfound") => n = MaxShortAttempts
              /\ (n > 0 /\ rs[n].answer = "ok") => proc[p].server \in CreatedServers
              /\ (n > 0 /\ rs[n].answer # "ok") =>
                    /\ proc[p].pc = "done"
                    /\ HasPart(proc[p].err, <<"cannot run instance">>)
                    /\ proc[p].ret = <<>>
                    /\ proc[p].server = 0
                    /\ proc[p].calls[Len(proc[p].calls)] = rs[n]
    /\ Cardinality(CreatedServers) =
          Cardinality({p \in Procs : \E i \in 1..Len(RunServerCalls(p)) :
                                         RunServerCalls(p)[i].answer = "ok"})

\* one call has used up the budget on "not found" answers and has failed,
\* another has got its server on the attempt after a "not found"
C21_Witness ==
    \E p, q \in Procs :
        /\ Len(RunServerCalls(p)) = MaxShortAttempts
        /\ \A i \in 1..MaxShortAttempts : RunServerCalls(p)[i].answer = "notfound"
        /\ proc[p].pc = "done"
        /\ HasPart(proc[p].err, <<"cannot run instance">>)
        /\ Len(RunServerCalls(q)) = 2
        /\ RunServerCalls(q)[1].answer = "notfound"
        /\ RunServerCalls(q)[2].answer = "ok"
        /\ servers[proc[q].server] = "BUILD"

\* the name of the machine's group in the environ's firewall mode
MachineGroupOf(machineId) ==
    IF fargs.mode = "instance" THEN machineGroupName(machineId) ELSE globalGroupName

\* call k of setUpGroups met no provider error other than duplicates
Unfailed(k) == \A i \in 1..Len(fres[k].calls) : fres[k].calls[i].answer # "error"

\* what a successful setUpGroups has returned and left in nova
GroupsSetUp(r) ==
    /\ Len(r.groups) = 2
    /\ r.groups[1].Name = jujuGroupName
    /\ r.groups[2].Name = MachineGroupOf(r.machineId)
    /\ r.groups[1] \in secGroups.groups
    /\ r.groups[2] \in secGroups.groups
    /\ \A i \in 1..Len(JujuGroupRules) : <<r.groups[1].Id, JujuGroupRules[i]>> \in secGroups.rules

\* C22: security-group setup is idempotent.  A create answered "duplicate"
\* is followed by a fetch by name and the existing group is returned; rules
\* answered "duplicate" are skipped; so a setUpGroups that meets no other
\* provider error succeeds, whatever earlier calls have left in nova, and two
\* successful calls for the same machine return the same two groups.  Any
\* other provider error is the last request made: ensureGroup returns the
\* zero group with that error and setUpGroups returns no groups.
C22_SetUpGroupsIdempotent ==
    fargs.fn = "setUpGroups" =>
        /\ \A g, h \in secGroups.groups : g.Name = h.Name => g = h
        /\ \A k \in 1..Len(fres) :
              LET r == fres[k]
                  n == Len(r.calls)
              IN  /\ Unfailed(k) <=> r.err = Nil
                  /\ r.err = Nil => GroupsSetUp(r)
                  /\ r.err # Nil =>
                        /\ r.groups = <<>>
                        /\ r.calls[n].answer = "error"
                        /\ r.err = ProviderErr(r.calls[n].op)
                        /\ \A i \in 1..(n - 1) : r.calls[i].answer # "error"
                  /\ \A e \in 1..Len(r.ensured) :
                        r.ensured[e].err # Nil => r.ensured[e].group = zeroGroup
                  /\ \A i \in 1..n :
                        (r.calls[i].op = "CreateSecurityGroup" /\ r.calls[i].answer = "duplicate")
                        => /\ i < n
                           /\ r.calls[i + 1].op = "SecurityGroupByName"
                           /\ r.calls[i + 1].arg = r.calls[i].arg
        /\ \A j, k \in 1..Len(fres) :
              (fres[j].machineId = fres[k].machineId /\ fres[j].err = Nil /\ fres[k].err = Nil)
              => fres[j].groups = fres[k].groups

\* setUpGroups has run twice for the same machine without a provider error:
\* the second run met duplicates only and returned the groups of the first
C22_Witness ==
    /\ fargs.fn = "setUpGroups"
    /\ Len(fres) = 2
    /\ fres[1].machineId = fres[2].machineId
    /\ fres[1].err = Nil
    /\ fres[2].err = Nil
    /\ fres[1].groups = fres[2].groups
    /\ \A i \in 1..Len(fres[1].calls) : fres[1].calls[i].answer = "ok"
    /\ \A i \in 1..Len(fres[2].calls) :
          fres[2].calls[i].answer = IF fres[2].calls[i].op = "SecurityGroupByName"
                                    THEN "ok" ELSE "duplicate"

(***************************************************************************)
(* Properties of DNSName and WaitDNSName                                   *)
(***************************************************************************)

\* the calls before call k that returned an address
Resolutions(k) == {j \in 1..(k - 1) : fres[j].err = Nil /\ fres[j].addr # ""}

\* C23: once a call on the instance has returned a non-empty address, every
\* later call returns that address without a request to nova; while no call
\* has returned an address each call asks nova again, and after failed calls
\* only the address field is still empty.
C23_AddressCached ==
    fargs.fn = "DNSName" =>
        /\ \A k \in 1..Len(fres) :
              /\ \A j \in Resolutions(k) :
                    /\ fres[k].addr = fres[j].addr
                    /\ fres[k].err = Nil
                    /\ fres[k].queries = 0
              /\ Resolutions(k) = {} => fres[k].queries >= 1
              /\ (Resolutions(k) = {} /\ fres[k].fn = "DNSName") => fres[k].queries = 1
              /\ fres[k].err # Nil => fres[k].addr = ""
              /\ fres[k].err = Nil => fres[k].addr # ""
        /\ Resolutions(Len(fres) + 1) = {} => inst.address = ""
        /\ \A j \in Resolutions(Len(fres) + 1) : inst.address = fres[j].addr

\* DNSName has failed, then resolved the address with a request, then
\* returned it again without one
C23_Witness ==
    /\ fargs.fn = "DNSName"
    /\ Len(fres) = 3
    /\ \A k \in 1..3 : fres[k].fn = "DNSName"
    /\ fres[1].err = ErrNoDNSName
    /\ fres[2].err = Nil /\ fres[2].queries = 1 /\ fres[2].addr = "10.0.0.6"
    /\ fres[3].err = Nil /\ fres[3].queries = 0 /\ fres[3].addr = "10.0.0.6"
    /\ inst.address = "10.0.0.6"

\* C25: WaitDNSName calls DNSName at least once and at most MaxLongAttempts
\* times and goes on only after ErrNoDNSName: the first success returns the
\* address, the first other error returns that error, and a budget used up
\* on ErrNoDNSName results returns a "timed out" error.
C25_WaitDNSName ==
    fargs.fn = "DNSName" =>
        \A k \in 1..Len(fres) :
            fres[k].fn = "WaitDNSName" =>
                LET r == fres[k]
                    n == Len(r.tries)
                IN  /\ n >= 1
                    /\ n <= MaxLongAttempts
                    /\ \A i \in 1..(n - 1) : r.tries[i].err = ErrNoDNSName
                    /\ r.tries[n].err = Nil =>
                          r.err = Nil /\ r.addr = r.tries[n].addr /\ r.addr # ""
                    /\ r.tries[n].err \notin {Nil, ErrNoDNSName} =>
                          r.err = r.tries[n].err /\ r.addr = ""
                    /\ r.tries[n].err = ErrNoDNSName =>
                          /\ n = MaxLongAttempts
                          /\ r.addr = ""
                          /\ HasPart(r.err, <<"timed out trying to get DNS address for">>)

\* one WaitDNSName has timed out on ErrNoDNSName, another has returned the
\* error of nova after an ErrNoDNSName, a third has returned an address
C25_Witness ==
    /\ fargs.fn = "DNSName"
    /\ Len(fres) = 3
    /\ \A k \in 1..3 : fres[k].fn = "WaitDNSName"
    /\ fres[1].err = TimedOut /\ Len(fres[1].tries) = MaxLongAttempts
    /\ fres[2].err = GetServerErr /\ Len(fres[2].tries) = 2
    /\ fres[3].err = Nil /\ fres[3].addr = "2.2.2.2" /\ Len(fres[3].tries) = 2

(***************************************************************************)
(* Properties of the environ's fields                                      *)
(***************************************************************************)

\* C24 as claimed: every read and write of a field that SetConfig writes is
\* made by the caller that holds ecfgMutex, so no read of such a field
\* overlaps a write of it and no accessor returns a value that no SetConfig
\* has stored.
C24_FieldsAccessedUnderMutex ==
    \A p \in Procs :
        /\ eproc[p].acc # <<>> => ecfgMutex = p
        /\ ~Races(p)
        /\ eproc[p].got # <<>> => eproc[p].got[1] \in 0..MaxConfigs

(***************************************************************************)
(* Properties of the retry loops                                           *)
(***************************************************************************)

LoopBounded ==
    aloop.name # "" =>
        LET budget == AttemptBudget(RetryLoops[aloop.name].strategy)
            n == Len(aloop.tries)
        IN  /\ n <= budget
            /\ aloop.running # 0 => (aloop.running = n + 1 /\ aloop.running <= budget)
            /\ aloop.pc \in {"after", "done"} => n >= 1
            /\ \A i \in 1..(n - 1) : aloop.tries[i] \notin RetryLoops[aloop.name].leaves
            /\ aloop.pc = "done" =>
                  \/ aloop.err # Nil
                  \/ aloop.tries[n] \in LoopSuccesses[aloop.name]

\* C26: every retry loop of the provider (Bootstrap's state check, RunServer,
\* Instances, assignPublicIP, WaitDNSName, StateInfo, fetchMetadata) makes at
\* least one attempt, begins an attempt only when the one before has ended,
\* makes no more attempts than its budget has slots, and always reaches the
\* code after the loop, which returns an error unless the last attempt
\* succeeded.
C26_RetryLoopsTerminate == []LoopBounded /\ <>(aloop.pc = "done")

\* a loop has used up its budget and returned an error
C26_Witness ==
    /\ aloop.pc = "done"
    /\ aloop.name = "fetchMetadata"
    /\ Len(aloop.tries) = MaxShortAttempts
    /\ aloop.tries[1] = "get failed"
    /\ HasPart(aloop.err, <<"cannot get">>)

\* C27 as claimed: s.Matches(s) is true for every status value s, the legacy
\* values down, started and stopped included.
C27_MatchesReflexive ==
    (fargs.fn = "Matches" /\ fres # <<>> /\ fargs.status = fargs.candidate) => fres[1] = TRUE

(***************************************************************************)
(* Properties of racing Bootstraps                                         *)
(***************************************************************************)

PassesCheck(p) ==
    /\ proc[p].op = "Bootstrap"
    /\ proc[p].pc = "check"
    /\ proc'[p].pc = "tools"

\* C28: nothing but the saved state keeps a second Bootstrap out.  A
\* Bootstrap passes its check exactly when loadState answers not-found, which
\* it does as long as no Bootstrap has saved its state; a Bootstrap that ends
\* its check while a state is saved fails without running a server; the
\* saved state stays until a Destroy deletes it; and a Bootstrap that saves
\* its state does so whatever another call has saved meanwhile.  So two
\* calls that both check before either saves can both start an instance and
\* both succeed, and a call that starts after another has completed fails.
C28_OnlySavedStateExcludes ==
    [][ /\ \A p \in Procs :
              /\ PassesCheck(p) =>
                    /\ stateFile = <<>>
                    /\ proc'[p].calls[Len(proc'[p].calls)].answer = "notfound"
              /\ ( /\ proc[p].op = "Bootstrap"
                   /\ proc[p].pc = "check"
                   /\ proc'[p].pc # "check"
                   /\ stateFile # <<>> )
                 => /\ proc'[p].pc = "done"
                    /\ proc'[p].err # Nil
                    /\ CallsNamed(p, "RunServer") = <<>>
              /\ ( /\ proc[p].pc = "save"
                   /\ proc'[p].pc = "done"
                   /\ proc'[p].err = Nil )
                 => stateFile' = <<proc[p].server>>
        /\ (stateFile # <<>> /\ stateFile' = <<>>) =>
              \E p \in Procs : proc[p].pc = "idle" /\ proc'[p].op = "Destroy"
      ]_vars

\* two Bootstraps of the same environment have both returned without error,
\* each with a server of its own
C28_Witness ==
    \E p, q \in Procs :
        /\ p # q
        /\ Returned(p, "Bootstrap") /\ proc[p].err = Nil
        /\ Returned(q, "Bootstrap") /\ proc[q].err = Nil
        /\ proc[p].server # proc[q].server
        /\ servers[proc[p].server] = "BUILD"
        /\ servers[proc[q].server] = "BUILD"
        /\ stateFile = <<proc[q].server>>

(***************************************************************************)
(* Properties of the current-model and current-controller files            *)
(***************************************************************************)

\* the last call that was a write has returned without error, and no call
\* is at work on the files
Settled == fhist.lastWrite # <<>> /\ flock = "" /\ \A p \in Procs : fproc[p].pc \in {"idle", "done"}

LastWrite == fhist.lastWrite[1]

LastWasController == LastWrite.op = "WriteCurrentController"

\* a read has returned its result after the last write
HasRead(p, op) ==
    /\ fhist.lastWrite # <<>>
    /\ fproc[p].pc = "done"
    /\ fproc[p].op = op
    /\ fproc[p].err = Nil

\* after a write that returned without error exactly the written file
\* exists, and it holds the name and a newline
OnlyWrittenFileExists ==
    Settled =>
        /\ files[OwnFile(LastWrite.op, 1)] = <<FileContent(LastWrite.name)>>
        /\ files[OtherFile(OwnFile(LastWrite.op, 1))] = <<>>

\* C29 as claimed: after writes that returned without error at most one of
\* the two files exists and holds the name written last: ReadCurrentModel
\* returns the name after WriteCurrentModel(name) and ReadCurrentController
\* returns "" (and the other way round), and CurrentConnectionName returns
\* the name, with is_controller true exactly when the last write was
\* WriteCurrentController.
C29_ReadsReturnNameWritten ==
    /\ OnlyWrittenFileExists
    /\ \A p \in Procs :
          /\ HasRead(p, "ReadCurrentModel") =>
                fproc[p].ret[1].name = IF LastWasController THEN <<>> ELSE LastWrite.name
          /\ HasRead(p, "ReadCurrentController") =>
                fproc[p].ret[1].name = IF LastWasController THEN LastWrite.name ELSE <<>>
          /\ HasRead(p, "CurrentConnectionName") =>
                fproc[p].ret[1] = [name |-> LastWrite.name, is_controller |-> LastWasController]

\* C29 amended: after writes that returned without error exactly the file
\* written last exists and holds the name and a newline; the readers return
\* the name without its leading and trailing white space, so
\* ReadCurrentModel returns the trimmed name after WriteCurrentModel(name)
\* and ReadCurrentController returns "" (and the other way round), and
\* CurrentConnectionName returns the trimmed name, with is_controller true
\* exactly when the last write was WriteCurrentController and the trimmed
\* name is not empty.
C29_ReadsReturnTrimmedName ==
    /\ OnlyWrittenFileExists
    /\ \A p \in Procs :
          /\ HasRead(p, "ReadCurrentModel") =>
                fproc[p].ret[1].name =
                    IF LastWasController THEN <<>> ELSE TrimSpace(LastWrite.name)
          /\ HasRead(p, "ReadCurrentController") =>
                fproc[p].ret[1].name =
                    IF LastWasController THEN TrimSpace(LastWrite.name) ELSE <<>>
          /\ HasRead(p, "CurrentConnectionName") =>
                fproc[p].ret[1] =
                    [name |-> TrimSpace(LastWrite.name),
                     is_controller |-> LastWasController /\ TrimSpace(LastWrite.name) # <<>>]

\* a model was written, then a controller, and CurrentConnectionName has
\* returned the controller
C29_Witness ==
    \E p \in Procs :
        /\ fhist.calls = 3
        /\ HasRead(p, "CurrentConnectionName")
        /\ LastWrite = [op |-> "WriteCurrentController", name |-> <<"b">>]
        /\ fproc[p].ret[1] = [name |-> <<"b">>, is_controller |-> TRUE]
        /\ files = [model |-> <<>>, controller |-> <<FileContent(<<"b">>)>>]

\* C30 as claimed: while the writers leave a current model or a current
\* controller in place whenever the lock is free, a CurrentConnectionName
\* that runs concurrently with them returns a name that is not empty.
C30_ConnectionNameNeverEmpty ==
    \A p \in Procs :
        ( /\ fproc[p].pc = "done"
          /\ fproc[p].op = "CurrentConnectionName"
          /\ fproc[p].err = Nil
          /\ ~fhist.unset )
        => fproc[p].ret[1].name # <<>>

=============================================================================
